---------------------------- MODULE Spec2Model ----------------------------
(***************************************************************************)
(* TWR ranging engine of the UWB tag firmware.                             *)
(*                                                                         *)
(*   src/src/uwb_driver_qorvo.c  uwb_send_poll, uwb_wait_resp,             *)
(*                               uwb_send_final, calculate_distance,       *)
(*                               uwb_twr_cycle, uwb_driver_init            *)
(*   src/src/main.c              main (boot, watchdog loop)                *)
(*                                                                         *)
(* The firmware is one thread.  It talks to the DW3000 transceiver through *)
(* the status register, the TX/RX timestamp registers and the TX/RX        *)
(* buffers; the transceiver and the anchor are the environment, whose      *)
(* events interleave with the firmware between two register accesses.      *)
(***************************************************************************)
EXTENDS Integers, Sequences, FiniteSets, TLC

(***************************************************************************)
(* Wide integers.  TLC's integers are 32 bits wide and the timestamps are  *)
(* 40 bits wide, so an integer v is kept as the pair <<hi, lo>> with       *)
(* v = hi * 2^20 + lo and 0 <= lo < 2^20 (hi carries the sign).            *)
(***************************************************************************)
LIMB == 2^20

W(n) == <<n \div LIMB, n % LIMB>>

WNorm(hi, lo) == <<hi + (lo \div LIMB), lo % LIMB>>

WAdd(a, b) == WNorm(a[1] + b[1], a[2] + b[2])

WSub(a, b) == WNorm(a[1] - b[1], a[2] - b[2])

WGe(a, b) == \/ a[1] > b[1]
             \/ a[1] = b[1] /\ a[2] >= b[2]

WNeg(a) == a[1] < 0

WZero == <<0, 0>>

\* a * k for 0 <= k < 2048 and |a| < 2^41 (every product fits 32 bits)
WMulSmall(a, k) == WNorm(a[1] * k, a[2] * k)

\* floor(a / d) for a >= 0 and 0 < d < 2048
WDivSmall(a, d) == <<a[1] \div d, (((a[1] % d) * LIMB) + a[2]) \div d>>

(***************************************************************************)
(* Program constants.                                                      *)
(***************************************************************************)
FUNC_CODE_POLL == 97         \* 0x61, tx_poll_msg[9]
FUNC_CODE_RESP == 80         \* 0x50, the type uwb_wait_resp accepts
MSG_TYPE_FINAL == 35         \* 0x23, final_frame[9]
RESP_MIN_LEN == 20           \* frame_len >= 20
RX_BUFFER_LEN == 128         \* uint8_t rx_buffer[128]; frame_len < 128
RESP_POLL_LIMIT == 3000      \* for (int i = 0; i < 3000; i++)
POLL_TX_POLL_LIMIT == 1000   \* if (tx_timeout > 1000)
FINAL_TX_TIMEOUT == 10000    \* while (timeout < 10000)
FINAL_TX_STEP == 100         \* timeout += 100
FAIL_THRESHOLD == 10         \* if (fail_count >= 10)
MSG_TYPE_BEACON == 112       \* 0x70, uwb_driver.c
PAYLOAD_MAX == 32            \* uint8_t payload[32] of uwb_data_frame_t
SLEEP_RESP_MS == 50          \* k_msleep(50) of uwb_driver.c's uwb_twr_cycle
TAG_TWR_PERIOD_MS == 1000    \* #define TAG_TWR_PERIOD_MS 1000
POLL_PAUSE_MS == 5           \* k_msleep(5) behind uwb_send_poll, uwb_wait_resp
RESP_POLL_MS == 1            \* k_msleep(1) of the RESPONSE wait
INIT_SLEEP_MS == 260         \* k_msleep(10), (50) and (200) of uwb_driver_init
REINIT_PAUSE_MS == 100       \* k_msleep(100) after the watchdog's init
FAST_SLEEP_MS == 50          \* k_msleep(50) of the 20 Hz main()
SEQ_MOD == 256               \* static uint8_t seq_num
UINT8_MAX == 255             \* uint8_t payload_len

\* 0x10000000000ULL, the span of the 40-bit device clock
TWO40 == <<LIMB, 0>>

\* the first value a uint32_t cannot hold
TWO32 == <<4096, 0>>

(***************************************************************************)
(* Bounds of the model.                                                    *)
(***************************************************************************)
MaxCycles == 12       \* supervisor iterations explored
MaxFullCycles == 1    \* supervisor iterations explored at full loop budgets
MaxCount == 1         \* where the counters of the unbounded run stop counting
MaxSeq == 4           \* where seq_num of the unbounded run wraps
MaxSeqCycles == 2     \* supervisor iterations explored by SpecSeq
MaxSeqBack == 8       \* how far below 256 the frame counts of SpecSeq start
MaxUptimeMs == 70000  \* latest k_uptime_get() the simulated driver reads
MaxLateMs == 1        \* how much longer than asked a k_msleep may take
TickMs == 250         \* the step in which time not slept passes
MaxElapsedMs == 1500  \* the longest iteration before its closing sleep
MaxTimedCycles == 2   \* supervisor iterations explored with the clock
StartUptimeMs == 9500 \* k_uptime_get() when the timed run is picked up
MaxFastCycles == 11   \* supervisor iterations explored in the 20 Hz mode
MaxStuckCycles == 21  \* supervisor iterations explored with a failing re-init
MaxBuilds == 3        \* frames built when build_ieee802154_frame runs alone
MaxOff == 5           \* how far from 0 and from 2^40 the timestamps of
                      \* SpecElapsed lie
MaxTxPolls == 2       \* TX-done polls per transmission in the scaled specs
MaxRespPolls == 3     \* status polls of the RESPONSE wait in the scaled specs

(***************************************************************************)
(* Timestamps.  The transceiver hands a timestamp over as 5 bytes, least   *)
(* significant first; a 5-byte register image is the tuple <<b0,..,b4>>.   *)
(***************************************************************************)
\* byte b shifted left by 8*k bits, k in 0..4
ByteShl(b, k) ==
    CASE k = 0 -> <<0, b>>
      [] k = 1 -> <<0, b * 256>>
      [] k = 2 -> <<b \div 16, (b % 16) * 65536>>
      [] k = 3 -> <<b * 16, 0>>
      [] k = 4 -> <<b * 4096, 0>>

\* fault: the top byte shifted by 36 bits
get_timestamp_u64_shift(ts_tab) ==
    WAdd(ByteShl(ts_tab[1], 0),
    WAdd(ByteShl(ts_tab[2], 1),
    WAdd(ByteShl(ts_tab[3], 2),
    WAdd(ByteShl(ts_tab[4], 3), WMulSmall(ByteShl(ts_tab[5], 4), 16)))))

\* get_tx_timestamp_u64 / get_rx_timestamp_u64: the five bytes or-ed into
\* place (the byte ranges are disjoint, so the or is the sum)
get_timestamp_u64(ts_tab) ==
    WAdd(ByteShl(ts_tab[1], 0),
    WAdd(ByteShl(ts_tab[2], 1),
    WAdd(ByteShl(ts_tab[3], 2),
    WAdd(ByteShl(ts_tab[4], 3), ByteShl(ts_tab[5], 4)))))

\* fault: the wrap adds 0xFFFFFFFFFF, the largest timestamp, instead of 2^40
wait_resp_interval_ff(later, earlier) ==
    IF WGe(later, earlier)
    THEN WSub(later, earlier)
    ELSE WAdd(WSub(WSub(TWO40, W(1)), earlier), later)

\* uwb_wait_resp():
\*   if (resp_rx_ts >= poll_tx_ts) Ra = resp_rx_ts - poll_tx_ts;
\*   else Ra = (0x10000000000ULL - poll_tx_ts) + resp_rx_ts;   (Db alike)
wait_resp_interval(later, earlier) ==
    IF WGe(later, earlier)
    THEN WSub(later, earlier)
    ELSE WAdd(WSub(TWO40, earlier), later)

\* fault: the plain difference, with no wrap
calc_interval_raw(later, earlier) == WSub(later, earlier)

\* calculate_distance():
\*   if (resp_rx_40 >= poll_tx_40) Ra = (int64_t)(resp_rx_40 - poll_tx_40);
\*   else Ra = (int64_t)((0x10000000000ULL - poll_tx_40) + resp_rx_40);
calc_interval(later, earlier) ==
    IF WGe(later, earlier)
    THEN WSub(later, earlier)
    ELSE WAdd(WSub(TWO40, earlier), later)

\* fault: uwb_wait_resp keeps a negative time of flight
wait_resp_tof2_signed(ra, db) == WSub(ra, db)

\* The time of flight is kept doubled, so that half DTUs stay integers.
\* uwb_wait_resp(): tof = ((double)Ra - (double)Db) / 2.0; if (tof < 0) tof = 0;
wait_resp_tof2(ra, db) ==
    IF WNeg(WSub(ra, db)) THEN WZero ELSE WSub(ra, db)

\* fault: Ra - Db / 2.0, the division binding first
calc_tof2_prec(ra, db) ==
    IF WNeg(WSub(WAdd(ra, ra), db)) THEN WZero ELSE WSub(WAdd(ra, ra), db)

\* fault: Db - Ra
calc_tof2_swapped(ra, db) ==
    IF WNeg(WSub(db, ra)) THEN WZero ELSE WSub(db, ra)

\* calculate_distance(): tof = ((double)Ra - (double)Db) / 2.0;
\*                       if (tof < 0) { LOG_WRN(...); tof = 0.0; }
calc_tof2(ra, db) ==
    IF WNeg(WSub(ra, db)) THEN WZero ELSE WSub(ra, db)

\* uwb_wait_resp(): dist = tof * 15.65e-12 * 299792458.0; dist * 1000.0.
\* 15.65e-12 * 299792458 * 1000 = 4.69 mm per DTU to three digits, that is
\* 469/200 mm per half DTU; the fraction of a millimetre is dropped.
DistMm(tof2) == WDivSmall(WMulSmall(tof2, 469), 200)

\* calculate_distance(): tof * (1.0 / (499.2e6 * 128.0)) * SPEED_OF_LIGHT,
\* kept in millimetres: 4.69 mm per DTU to three digits as well
DistanceMm(tof2) == WDivSmall(WMulSmall(tof2, 469), 200)

\* (uint32_t)(dist * 1000.0): the value when a uint32_t holds it; a double
\* out of range converts with undefined behaviour, so the build may wrap,
\* saturate or yield 0
CastU32(d) ==
    IF WGe(d, TWO32)
    THEN {WZero, <<4095, LIMB - 1>>, <<d[1] % 4096, d[2]>>}
    ELSE {d}

(***************************************************************************)
(* State.                                                                  *)
(***************************************************************************)
VARIABLES
    \* main()
    pc,                  \* where the firmware stands
    ret,                 \* what uwb_driver_init / uwb_twr_cycle returned
    fail_count,          \* int fail_count
    frame_count,         \* uint32_t frame_count
    \* statics of uwb_driver_qorvo.c
    seq_num,
    poll_tx_ts, resp_rx_ts, final_tx_ts,
    poll_rx_ts_anchor, resp_tx_ts_anchor,
    calculated_dist_mm,
    distance,            \* double distance of uwb_twr_cycle, in mm
    Ra, Db, tof,         \* locals of uwb_wait_resp and calculate_distance
                         \* (tof doubled)
    \* loop counters of uwb_send_poll, uwb_wait_resp, uwb_send_final
    tx_timeout, i, timeout,
    \* the transceiver
    status,              \* SYS_STATUS event flags that are set
    trx,                 \* "IDLE", "TX" or "RX"
    resp_expected,       \* TX was started with DWT_RESPONSE_EXPECTED
    txbuf,               \* the frame in the TX buffer
    txts, rxts,          \* TX and RX timestamp registers (5 bytes each)
    rxframe,             \* the frame in the RX buffer
    devid,               \* what dwt_readdevid() returns over SPI right now
    \* uwb_driver.c
    frame_seq_num,       \* static uint8_t frame_seq_num
    frame,               \* the uwb_data_frame_t built last, byte by byte
    frame_len,           \* what build_ieee802154_frame returned for it
    t1_poll_tx,          \* uint64_t t1_poll_tx of uwb_twr_cycle, in us
    t4_resp_rx,          \* uint64_t t4_resp_rx of uwb_twr_cycle, in us
    call,                \* the arguments build_ieee802154_frame had last
    \* the system clock, and main()'s reading of it
    uptime,              \* what k_uptime_get() returns right now, in ms
    t_start,             \* int64_t t_start
    elapsed,             \* int64_t elapsed
    sleep_ms,            \* int32_t sleep_ms, the argument of the k_msleep
                         \* that ends the iteration
    \* history
    ev,                  \* what the current cycle has done so far
    ops,                 \* the requests made to the transceiver by the
                         \* current cycle, or by uwb_driver_init last
    cap,                 \* the timestamps the current cycle took over
    reinits,             \* watchdog calls of uwb_driver_init
    fail_run             \* failed cycles since the last successful one

supv == <<fail_count, frame_count, reinits, fail_run>>
stamps == <<poll_tx_ts, resp_rx_ts, final_tx_ts,
            poll_rx_ts_anchor, resp_tx_ts_anchor>>
results == <<calculated_dist_mm, distance, Ra, Db, tof>>
loops == <<tx_timeout, i, timeout>>
radio == <<status, trx, resp_expected, txbuf, txts, rxts, rxframe>>
hist == <<ev, cap>>
sim == <<frame_seq_num, frame, frame_len, t1_poll_tx, t4_resp_rx, call>>
clk == <<uptime, t_start, elapsed, sleep_ms>>
vars == <<pc, ret, seq_num, supv, stamps, results, loops, radio, devid, hist,
          sim, clk, ops>>

\* uwb_driver.c before its first call
NoFrameBuilt ==
    /\ frame_seq_num = 0
    /\ frame = <<>>
    /\ frame_len = 0
    /\ t1_poll_tx = 0
    /\ t4_resp_rx = 0
    /\ call = [frame |-> FALSE, msg_type |-> 0, has_payload |-> FALSE,
               payload |-> <<>>, payload_len |-> 0]

\* main() before its first iteration
NoIteration ==
    /\ uptime = 0
    /\ t_start = 0
    /\ elapsed = 0
    /\ sleep_ms = 0

NONE == <<-1, 0>>

\* (heard: the receiver has latched a frame since uwb_send_poll cleared the
\* status register; pollSeq: the sequence number of the cycle's POLL)
NoCap ==
    [pollTx |-> NONE, respRx |-> NONE, pollRx |-> NONE, respTx |-> NONE,
     heard |-> FALSE, pollSeq |-> -1]

ZeroStamp == <<0, 0, 0, 0, 0>>

\* a frame in the RX buffer: its length as RX_FINFO reports it, bytes 0..8
\* (b0), byte 9 (type), bytes 10..14 (b10), bytes 15..19 (b15) and the
\* bytes from 20 on (b20)
NoFrame ==
    [len |-> 0, b0 |-> <<0, 0, 0, 0, 0, 0, 0, 0, 0>>, type |-> 0,
     b10 |-> ZeroStamp, b15 |-> ZeroStamp, b20 |-> <<>>]

SYS_STATUS_ALL_TX == {"TXFRS"}
SYS_STATUS_ALL_RX_GOOD == {"RXFCG"}
SYS_STATUS_ALL_RX_ERR == {"RXERR"}

(***************************************************************************)
(* What the environment may hand over.                                     *)
(***************************************************************************)
TS_5 == <<5, 0, 0, 0, 0>>
TS_300 == <<44, 1, 0, 0, 0>>
TS_1000 == <<232, 3, 0, 0, 0>>
TS_1100 == <<76, 4, 0, 0, 0>>
TS_WRAP == <<253, 255, 255, 255, 255>>      \* 2^40 - 3

DEV_ID_DW3000 == <<57034, 770>>             \* 0xDECA0302
DEV_ID_ZERO == <<0, 0>>                     \* 0x00000000
DEV_ID_ONES == <<65535, 65535>>             \* 0xFFFFFFFF
DEV_ID_UNKNOWN == <<0, 1>>                  \* 0x00000001, no DW3000

\* the anchor's RESPONSE to tag 1 with the timestamp pair p
Response(p) ==
    [len |-> 20, b0 |-> <<65, 136, 0, 202, 222, 1, 0, 2, 0>>,
     type |-> FUNC_CODE_RESP, b10 |-> p[1], b15 |-> p[2], b20 |-> <<>>]

\* the frames an anchor or an unrelated device may send: RESPONSEs carrying
\* the timestamp pairs ps, a frame of another type, a truncated RESPONSE,
\* and frames whose reported length is 0 or does not fit rx_buffer
FramesOf(ps) ==
    {Response(p) : p \in ps}
    \cup {[Response(<<TS_1000, TS_1100>>) EXCEPT !.type = FUNC_CODE_POLL],
          [Response(<<TS_1000, TS_1100>>) EXCEPT !.len = 12]}
    \cup {[NoFrame EXCEPT !.len = 0], [NoFrame EXCEPT !.len = RX_BUFFER_LEN,
                                                  !.type = FUNC_CODE_RESP]}

\* The scaled profile: every loop of the firmware with a short budget, and
\* the clock left out (k_uptime_get() reads the same value throughout).
Scaled ==
    [cycles |-> MaxCycles, stop |-> TRUE,
     txPolls |-> MaxTxPolls, respPolls |-> MaxRespPolls,
     finalTimeout |-> MaxTxPolls * FINAL_TX_STEP,
     seqMod |-> SEQ_MOD,
     clock |-> FALSE, period |-> TAG_TWR_PERIOD_MS,
     txStamps |-> {TS_5}, rxStamps |-> {TS_300},
     frames |-> FramesOf({<<TS_1000, TS_1100>>, <<TS_WRAP, TS_5>>}),
     devIds |-> {DEV_ID_DW3000, DEV_ID_ZERO},
     transportAt |-> {"boot", "diag"}]

\* The loop budgets of the source.
Full ==
    [Scaled EXCEPT !.cycles = MaxFullCycles,
                   !.txPolls = POLL_TX_POLL_LIMIT,
                   !.respPolls = RESP_POLL_LIMIT,
                   !.finalTimeout = FINAL_TX_TIMEOUT,
                   !.frames = {Response(<<TS_1000, TS_1100>>),
                               [Response(<<TS_1000, TS_1100>>)
                                   EXCEPT !.type = FUNC_CODE_POLL]}]

\* No end to the supervisor loop; frame_count and the history counters stop
\* counting at MaxCount, and seq_num wraps at MaxSeq.
Live ==
    [Scaled EXCEPT !.stop = FALSE,
                   !.cycles = MaxCount,
                   !.seqMod = MaxSeq,
                   !.frames = {Response(<<TS_1000, TS_1100>>),
                               [Response(<<TS_1000, TS_1100>>)
                                   EXCEPT !.type = FUNC_CODE_POLL]}]

(***************************************************************************)
(* Frame codec of uwb_send_poll and uwb_send_final.                        *)
(***************************************************************************)
\* fault: tx_poll_msg[2] = ++seq_num
PollFrame_pre(seq) ==
    <<65, 136, (seq + 1) % SEQ_MOD, 202, 222, 255, 255, 1, 0, FUNC_CODE_POLL>>

\* fault: a byte of payload behind the message type
PollFrame_payload(seq) ==
    <<65, 136, seq, 202, 222, 255, 255, 1, 0, FUNC_CODE_POLL, 0>>

\* tx_poll_msg with tx_poll_msg[2] = seq
PollFrame(seq) == <<65, 136, seq, 202, 222, 255, 255, 1, 0, FUNC_CODE_POLL>>

\* uwb_send_blink(): frame with frame[1] = seq
BlinkFrame(seq) == <<197, seq, 1, 35, 69, 103, 137, 171, 205, 239, 0, 0>>

\* fault: the four bytes most significant first
U32Bytes_be(d) ==
    <<(d[1] \div 16) % 256,
      (d[2] \div 65536) + ((d[1] % 16) * 16),
      (d[2] \div 256) % 256,
      d[2] % 256>>

\* the four bytes of a uint32_t d, least significant first
U32Bytes(d) ==
    <<d[2] % 256,
      (d[2] \div 256) % 256,
      (d[2] \div 65536) + ((d[1] % 16) * 16),
      (d[1] \div 16) % 256>>

\* final_frame with final_frame[2] = seq and the distance at 10..13
FinalFrame(seq, dist_mm) ==
    <<65, 136, seq, 202, 222, 2, 0, 1, 0, MSG_TYPE_FINAL>> \o U32Bytes(dist_mm)

\* dwt_readrxdata(rx_buffer, frame_len, 0): the bytes of the frame
rx_buffer(f) == f.b0 \o <<f.type>> \o f.b10 \o f.b15 \o f.b20

\* fault: the two offsets the wrong way round
rx_buffer_stamp_swapped(f, off) ==
    LET b == [k \in 0..4 |-> rx_buffer(f)[(25 - off) + k + 1]]
    IN  WAdd(ByteShl(b[0], 0),
        WAdd(ByteShl(b[1], 1),
        WAdd(ByteShl(b[2], 2),
        WAdd(ByteShl(b[3], 3), ByteShl(b[4], 4)))))

\* fault: the five bytes are taken one byte early
rx_buffer_stamp_early(f, off) ==
    LET b == [k \in 0..4 |-> rx_buffer(f)[off + k]]
    IN  WAdd(ByteShl(b[0], 0),
        WAdd(ByteShl(b[1], 1),
        WAdd(ByteShl(b[2], 2),
        WAdd(ByteShl(b[3], 3), ByteShl(b[4], 4)))))

\* for (int i = 0; i < 5; i++) ts |= ((uint64_t)rx_buffer[off + i]) << (i * 8)
\* with off 10 or 15 (the byte ranges are disjoint, so the or is the sum)
rx_buffer_stamp(f, off) ==
    LET b == [k \in 0..4 |-> rx_buffer(f)[off + k + 1]]
    IN  WAdd(ByteShl(b[0], 0),
        WAdd(ByteShl(b[1], 1),
        WAdd(ByteShl(b[2], 2),
        WAdd(ByteShl(b[3], 3), ByteShl(b[4], 4)))))

\* uwb_wait_resp reads the frame only when 0 < frame_len < 128
FrameRead(f) == f.len > 0 /\ f.len < RX_BUFFER_LEN

\* fault: the length of the frame is not looked at
IsResponse_any_len(f) == f.type = FUNC_CODE_RESP

\* fault: only a frame sent to this tag (destination 0x0001) is a RESPONSE
IsResponse_addressed(f) ==
    /\ f.len >= RESP_MIN_LEN /\ f.type = FUNC_CODE_RESP
    /\ SubSeq(f.b0, 6, 7) = <<1, 0>>

\* if (frame_len >= 20 && rx_buffer[9] == 0x50)
IsResponse(f) == f.len >= RESP_MIN_LEN /\ f.type = FUNC_CODE_RESP

(***************************************************************************)
(* Frame codec of uwb_driver.c.                                            *)
(***************************************************************************)
RECURSIVE LEBytes(_, _)
\* memcpy of an integer of k bytes on the little-endian target
LEBytes(n, k) ==
    IF k = 0 THEN <<>> ELSE <<n % 256>> \o LEBytes(n \div 256, k - 1)

Zeros(k) == [j \in 1..k |-> 0]

\* fault: the payload is copied over the message type
build_ieee802154_frame_overlap(seq, msg_type, payload) ==
    LET copy_len == IF Len(payload) > PAYLOAD_MAX THEN PAYLOAD_MAX
                    ELSE Len(payload)
    IN  [bytes |-> <<65, 136, seq, 202, 222, 255, 255, 1, 0>>
                      \o SubSeq(payload, 1, copy_len)
                      \o Zeros(PAYLOAD_MAX + 1 - copy_len),
         len |-> IF Len(payload) > 0 THEN 9 + copy_len ELSE 10]

\* fault: memcpy(frame->payload, payload, payload_len), no limit of 32
build_ieee802154_frame_unbounded(seq, msg_type, payload) ==
    [bytes |-> <<65, 136, seq, 202, 222, 255, 255, 1, 0, msg_type>>
                  \o payload \o Zeros(PAYLOAD_MAX - Len(payload)),
     len |-> IF Len(payload) > 0 THEN 9 + 1 + Len(payload) ELSE 10]

\* build_ieee802154_frame(&frame, msg_type, payload, payload_len) with
\* frame_seq_num = seq: the 42 bytes of the zeroed and filled structure and
\* the frame length returned; payload <<>> stands for NULL or payload_len 0
build_ieee802154_frame(seq, msg_type, payload) ==
    LET copy_len == IF Len(payload) > PAYLOAD_MAX THEN PAYLOAD_MAX
                    ELSE Len(payload)
    IN  [bytes |-> <<65, 136, seq, 202, 222, 255, 255, 1, 0, msg_type>>
                      \o SubSeq(payload, 1, copy_len)
                      \o Zeros(PAYLOAD_MAX - copy_len),
         len |-> IF Len(payload) > 0 THEN 9 + 1 + copy_len ELSE 10]

\* build_ieee802154_frame(frame, msg_type, payload, payload_len) as a call:
\* c.frame and c.has_payload tell whether the two pointers are non-null;
\* old is what the structure held.  Gives the value returned, the bytes of
\* the structure and frame_seq_num after the call.
build_frame_call(c, seq, old) ==
    IF ~c.frame
    THEN [ret |-> -1, bytes |-> old, seq |-> seq]
    ELSE LET b == build_ieee802154_frame(seq, c.msg_type,
                      IF c.has_payload /\ c.payload_len > 0
                      THEN SubSeq(c.payload, 1, c.payload_len) ELSE <<>>)
         IN  [ret |-> b.len, bytes |-> b.bytes, seq |-> (seq + 1) % SEQ_MOD]

\* uwb_send_blink() of uwb_driver.c: tag_info[0..7]
tag_info(seq) == <<1, 0, 1, 0, seq, 0, 0, 0>>

\* what k_uptime_get() may return, in ms
Uptimes == {0, 1, 66, MaxUptimeMs}

Sat(n, max) == IF n < max THEN n + 1 ELSE n

\* k_uptime_get() once a k_msleep(n) has returned
Slept(L, n) == IF L.clock THEN uptime + n ELSE uptime

(***************************************************************************)
(* uwb_driver_init.                                                        *)
(***************************************************************************)
\* -1 on an invalid device ID, on dwt_initialise() == DWT_ERROR and on
\* dwt_configure() != DWT_SUCCESS; otherwise 0
uwb_driver_init(dev_id, initialise_ok, configure_ok) ==
    IF dev_id = DEV_ID_ZERO \/ dev_id = DEV_ID_ONES THEN -1
    ELSE IF ~initialise_ok THEN -1
    ELSE IF ~configure_ok THEN -1
    ELSE 0

\* fault: the device ID is looked at only after dwt_initialise()
uwb_driver_init_ops_late(dev_id, initialise_ok, configure_ok) ==
    LET reset == <<"peripherals_init", "reset_DWIC", "dwt_readdevid",
                   "dwt_checkidlerc", "dwt_softreset", "dwt_initialise">>
        setup == <<"dwt_readdevid", "dwt_setleds", "dwt_configure">>
        radio_setup == <<"dwt_configuretxrf", "dwt_setrxantennadelay",
                         "dwt_settxantennadelay", "dwt_setrxaftertxdelay",
                         "dwt_setrxtimeout", "dwt_setpreambledetecttimeout",
                         "dwt_setlnapamode", "dwt_configureframefilter">>
    IN  IF dev_id = DEV_ID_ZERO \/ dev_id = DEV_ID_ONES THEN reset
        ELSE IF ~initialise_ok THEN reset
        ELSE IF ~configure_ok THEN reset \o setup
        ELSE reset \o setup \o radio_setup

\* the calls uwb_driver_init() makes to the chip, in order, up to its return
uwb_driver_init_ops(dev_id, initialise_ok, configure_ok) ==
    LET probe == <<"peripherals_init", "reset_DWIC", "dwt_readdevid">>
        init == <<"dwt_checkidlerc", "dwt_softreset", "dwt_initialise">>
        setup == <<"dwt_readdevid", "dwt_setleds", "dwt_configure">>
        radio_setup == <<"dwt_configuretxrf", "dwt_setrxantennadelay",
                         "dwt_settxantennadelay", "dwt_setrxaftertxdelay",
                         "dwt_setrxtimeout", "dwt_setpreambledetecttimeout",
                         "dwt_setlnapamode", "dwt_configureframefilter">>
    IN  IF dev_id = DEV_ID_ZERO \/ dev_id = DEV_ID_ONES THEN probe
        ELSE IF ~initialise_ok THEN probe \o init
        ELSE IF ~configure_ok THEN probe \o init \o setup
        ELSE probe \o init \o setup \o radio_setup

\* reset_DWIC(): the transceiver comes up idle with its events cleared
ChipReset ==
    /\ status' = {}
    /\ trx' = "IDLE"
    /\ resp_expected' = FALSE
    /\ UNCHANGED <<txbuf, txts, rxts, rxframe>>

(***************************************************************************)
(* main().                                                                 *)
(***************************************************************************)
\* ret = uwb_driver_init(); if (ret) { ... while (1) ... }
main_boot(L) ==
    /\ pc = "boot"
    /\ \E a \in BOOLEAN, b \in BOOLEAN :
          /\ ret' = uwb_driver_init(devid, a, b)
          /\ ops' = uwb_driver_init_ops(devid, a, b)
          /\ pc' = IF ret' # 0 THEN "diag" ELSE "loop"
    /\ ChipReset
    /\ UNCHANGED <<seq_num, supv, stamps, results, loops, hist>>
    /\ UNCHANGED <<devid, sim, clk>>

\* the diagnostic loop: blink, raw_spi_test(), forever
main_diag ==
    /\ pc = "diag"
    /\ pc' = "diag"
    /\ UNCHANGED <<ret, seq_num, supv, stamps, results, loops, radio, hist>>
    /\ UNCHANGED <<devid, sim, clk, ops>>

\* while (1) { t_start = ...; frame_count++; ... ret = uwb_twr_cycle();
main_loop(L) ==
    /\ pc = "loop"
    /\ L.stop => frame_count < L.cycles
    /\ t_start' = uptime
    /\ frame_count' = Sat(frame_count, L.cycles)
    /\ pc' = "cycle"
    /\ UNCHANGED <<ret, seq_num, fail_count, reinits, fail_run, stamps,
                   results, loops, radio, hist>>
    /\ UNCHANGED <<devid, sim, uptime, elapsed, sleep_ms, ops>>

\* fault: the watchdog fires one failure late (fail_count > 10)
main_result_late(L) ==
    /\ pc = "ret"
    /\ IF ret # 0
       THEN /\ fail_run' = Sat(fail_run, L.cycles)
            /\ IF fail_count + 1 > FAIL_THRESHOLD
               THEN /\ ChipReset
                    /\ reinits' = Sat(reinits, L.cycles)
                    /\ fail_count' = 0
                    /\ uptime' = Slept(L, INIT_SLEEP_MS + REINIT_PAUSE_MS)
                    /\ \E a \in BOOLEAN, b \in BOOLEAN :
                          ops' = uwb_driver_init_ops(devid, a, b)
               ELSE /\ fail_count' = fail_count + 1
                    /\ UNCHANGED <<reinits, radio, uptime, ops>>
       ELSE /\ fail_count' = 0
            /\ fail_run' = 0
            /\ UNCHANGED <<reinits, radio, uptime, ops>>
    /\ pc' = "sleep"
    /\ UNCHANGED <<ret, seq_num, frame_count, stamps, results, loops, hist>>
    /\ UNCHANGED <<devid, sim, t_start, elapsed, sleep_ms>>

\* fault: a successful cycle leaves fail_count as it is
main_result_keep(L) ==
    /\ pc = "ret"
    /\ IF ret # 0
       THEN /\ fail_run' = Sat(fail_run, L.cycles)
            /\ IF fail_count + 1 >= FAIL_THRESHOLD
               THEN /\ ChipReset
                    /\ reinits' = Sat(reinits, L.cycles)
                    /\ fail_count' = 0
                    /\ uptime' = Slept(L, INIT_SLEEP_MS + REINIT_PAUSE_MS)
                    /\ \E a \in BOOLEAN, b \in BOOLEAN :
                          ops' = uwb_driver_init_ops(devid, a, b)
               ELSE /\ fail_count' = fail_count + 1
                    /\ UNCHANGED <<reinits, radio, uptime, ops>>
       ELSE /\ fail_run' = 0
            /\ UNCHANGED <<fail_count, reinits, radio, uptime,
                        ops>>
    /\ pc' = "sleep"
    /\ UNCHANGED <<ret, seq_num, frame_count, stamps, results, loops, hist>>
    /\ UNCHANGED <<devid, sim, t_start, elapsed, sleep_ms>>

\* fault: a failed re-initialization is handled as the failed one at boot
main_result_halt(L) ==
    /\ pc = "ret"
    /\ IF ret # 0
       THEN /\ fail_run' = Sat(fail_run, L.cycles)
            /\ IF fail_count + 1 >= FAIL_THRESHOLD
               THEN /\ ChipReset
                    /\ reinits' = Sat(reinits, L.cycles)
                    /\ fail_count' = 0
                    /\ uptime' = Slept(L, INIT_SLEEP_MS + REINIT_PAUSE_MS)
                    /\ \E a \in BOOLEAN, b \in BOOLEAN :
                          /\ ops' = uwb_driver_init_ops(devid, a, b)
                          /\ pc' = IF uwb_driver_init(devid, a, b) # 0
                                   THEN "diag" ELSE "sleep"
               ELSE /\ fail_count' = fail_count + 1
                    /\ pc' = "sleep"
                    /\ UNCHANGED <<reinits, radio, uptime, ops>>
       ELSE /\ fail_count' = 0
            /\ fail_run' = 0
            /\ pc' = "sleep"
            /\ UNCHANGED <<reinits, radio, uptime, ops>>
    /\ UNCHANGED <<ret, seq_num, frame_count, stamps, results, loops, hist>>
    /\ UNCHANGED <<devid, sim, t_start, elapsed, sleep_ms>>

\* if (ret) { fail_count++;
\*            if (fail_count >= 10) { uwb_driver_init(); fail_count = 0; } }
\* else     { fail_count = 0; }
main_result(L) ==
    /\ pc = "ret"
    /\ IF ret # 0
       THEN /\ fail_run' = Sat(fail_run, L.cycles)
            /\ IF fail_count + 1 >= FAIL_THRESHOLD
               THEN /\ ChipReset
                    /\ reinits' = Sat(reinits, L.cycles)
                    /\ fail_count' = 0
                    /\ uptime' = Slept(L, INIT_SLEEP_MS + REINIT_PAUSE_MS)
                    /\ \E a \in BOOLEAN, b \in BOOLEAN :
                          ops' = uwb_driver_init_ops(devid, a, b)
               ELSE /\ fail_count' = fail_count + 1
                    /\ UNCHANGED <<reinits, radio, uptime, ops>>
       ELSE /\ fail_count' = 0
            /\ fail_run' = 0
            /\ UNCHANGED <<reinits, radio, uptime, ops>>
    /\ pc' = "sleep"
    /\ UNCHANGED <<ret, seq_num, frame_count, stamps, results, loops, hist>>
    /\ UNCHANGED <<devid, sim, t_start, elapsed, sleep_ms>>

\* elapsed = k_uptime_get() - t_start;
\* sleep_ms = (int32_t)TAG_TWR_PERIOD_MS - (int32_t)elapsed;
\* if (sleep_ms < 0) sleep_ms = 0;            (elapsed is far below 2^31)
RemainingMs(L, since) ==
    IF L.period - (uptime - since) < 0 THEN 0 ELSE L.period - (uptime - since)

\* fault: the loop goes on only after a successful cycle
main_sleep_halt(L) ==
    /\ pc = "sleep"
    /\ ret = 0
    /\ elapsed' = uptime - t_start
    /\ sleep_ms' = RemainingMs(L, t_start)
    /\ uptime' = Slept(L, sleep_ms')
    /\ pc' = "loop"
    /\ UNCHANGED <<ret, seq_num, supv, stamps, results, loops, radio, hist>>
    /\ UNCHANGED <<devid, sim, t_start, ops>>

\* fault: the whole period is slept, however long the iteration took
main_sleep_period(L) ==
    /\ pc = "sleep"
    /\ elapsed' = uptime - t_start
    /\ sleep_ms' = L.period
    /\ uptime' = Slept(L, sleep_ms')
    /\ pc' = "loop"
    /\ UNCHANGED <<ret, seq_num, supv, stamps, results, loops, radio, hist>>
    /\ UNCHANGED <<devid, sim, t_start, ops>>

\* elapsed = ...; k_msleep(sleep_ms); }
main_sleep(L) ==
    /\ pc = "sleep"
    /\ elapsed' = uptime - t_start
    /\ sleep_ms' = RemainingMs(L, t_start)
    /\ uptime' = Slept(L, sleep_ms')
    /\ pc' = "loop"
    /\ UNCHANGED <<ret, seq_num, supv, stamps, results, loops, radio, hist>>
    /\ UNCHANGED <<devid, sim, t_start, ops>>

(***************************************************************************)
(* uwb_twr_cycle and its three steps.                                      *)
(***************************************************************************)
\* uwb_twr_cycle(): poll_tx_ts = 0; resp_rx_ts = 0; final_tx_ts = 0;
uwb_twr_cycle_reset ==
    /\ pc = "cycle"
    /\ poll_tx_ts' = WZero
    /\ resp_rx_ts' = WZero
    /\ final_tx_ts' = WZero
    /\ distance' = NONE
    /\ Ra' = NONE
    /\ Db' = NONE
    /\ tof' = NONE
    /\ ev' = <<>>
    /\ cap' = NoCap
    /\ pc' = "poll"
    /\ UNCHANGED <<ret, seq_num, supv, poll_rx_ts_anchor, resp_tx_ts_anchor,
                   calculated_dist_mm, loops, radio>>
    /\ ops' = <<>>
    /\ UNCHANGED <<devid, sim, clk>>

\* fault: uwb_send_poll clears the TX flags only
uwb_send_poll_start_keep_rx(L) ==
    /\ pc = "poll"
    /\ poll_tx_ts' = WZero
    /\ resp_rx_ts' = WZero
    /\ txbuf' = PollFrame(seq_num)
    /\ seq_num' = (seq_num + 1) % L.seqMod
    /\ status' = status \ SYS_STATUS_ALL_TX
    /\ \E started \in BOOLEAN :
          /\ trx' = IF started THEN "TX" ELSE "IDLE"
          /\ resp_expected' = started
          /\ ev' = IF started THEN Append(ev, "POLL_TX") ELSE ev
    /\ tx_timeout' = 0
    /\ pc' = "poll_tx"
    /\ UNCHANGED <<ret, supv, final_tx_ts, poll_rx_ts_anchor,
                   resp_tx_ts_anchor, results, i, timeout, txts, rxts,
                   rxframe>>
    /\ cap' = [cap EXCEPT !.heard = FALSE, !.pollSeq = seq_num]
    /\ ops' = ops \o <<"dwt_forcetrxoff", "dwt_starttx">>
    /\ UNCHANGED <<devid, sim, clk>>

\* uwb_send_poll() up to dwt_starttx(): timestamps reset, frame stamped
\* with seq_num++, transceiver forced idle, all status flags cleared, frame
\* written, TX started with receive armed behind it (result not looked at)
uwb_send_poll_start(L) ==
    /\ pc = "poll"
    /\ poll_tx_ts' = WZero
    /\ resp_rx_ts' = WZero
    /\ txbuf' = PollFrame(seq_num)
    /\ seq_num' = (seq_num + 1) % L.seqMod
    /\ status' = status \ (SYS_STATUS_ALL_TX \cup SYS_STATUS_ALL_RX_GOOD
                                \cup SYS_STATUS_ALL_RX_ERR)
    /\ \E started \in BOOLEAN :
          /\ trx' = IF started THEN "TX" ELSE "IDLE"
          /\ resp_expected' = started
          /\ ev' = IF started THEN Append(ev, "POLL_TX") ELSE ev
    /\ tx_timeout' = 0
    /\ pc' = "poll_tx"
    /\ UNCHANGED <<ret, supv, final_tx_ts, poll_rx_ts_anchor,
                   resp_tx_ts_anchor, results, i, timeout, txts, rxts,
                   rxframe>>
    /\ cap' = [cap EXCEPT !.heard = FALSE, !.pollSeq = seq_num]
    /\ ops' = ops \o <<"dwt_forcetrxoff", "dwt_starttx">>
    /\ UNCHANGED <<devid, sim, clk>>

\* fault: uwb_twr_cycle goes on to the RESPONSE wait when the TX wait ran out
uwb_send_poll_wait_continue(L) ==
    /\ pc = "poll_tx"
    /\ IF "TXFRS" \in status
       THEN /\ poll_tx_ts' = get_timestamp_u64(txts)
            /\ cap' = [cap EXCEPT !.pollTx = get_timestamp_u64(txts)]
            /\ ev' = Append(ev, "POLL_TXDONE")
            /\ tx_timeout' = 0
            /\ i' = 0
            /\ pc' = "resp"
            /\ uptime' = Slept(L, POLL_PAUSE_MS)
       ELSE /\ IF tx_timeout + 1 > L.txPolls
               THEN /\ tx_timeout' = 0
                    /\ i' = 0
                    /\ pc' = "resp"
               ELSE /\ tx_timeout' = tx_timeout + 1
                    /\ UNCHANGED <<i, pc>>
            /\ UNCHANGED <<poll_tx_ts, hist, uptime>>
    /\ UNCHANGED <<ret, seq_num, supv, resp_rx_ts, final_tx_ts,
                   poll_rx_ts_anchor, resp_tx_ts_anchor, results, timeout,
                   radio, devid, sim, t_start, elapsed, sleep_ms, ops>>

\* uwb_send_poll(): one turn of the wait for TXFRS, then the timestamp;
\* uwb_twr_cycle(): k_msleep(5) once uwb_send_poll returned 0
uwb_send_poll_wait(L) ==
    /\ pc = "poll_tx"
    /\ IF "TXFRS" \in status
       THEN /\ poll_tx_ts' = get_timestamp_u64(txts)
            /\ cap' = [cap EXCEPT !.pollTx = get_timestamp_u64(txts)]
            /\ ev' = Append(ev, "POLL_TXDONE")
            /\ tx_timeout' = 0
            /\ i' = 0
            /\ pc' = "resp"
            /\ uptime' = Slept(L, POLL_PAUSE_MS)
            /\ UNCHANGED ret
       ELSE /\ IF tx_timeout + 1 > L.txPolls
               THEN /\ ret' = -1
                    /\ tx_timeout' = 0
                    /\ pc' = "ret"
               ELSE /\ tx_timeout' = tx_timeout + 1
                    /\ UNCHANGED <<ret, pc>>
            /\ UNCHANGED <<poll_tx_ts, i, hist, uptime>>
    /\ UNCHANGED <<seq_num, supv, resp_rx_ts, final_tx_ts, poll_rx_ts_anchor,
                   resp_tx_ts_anchor, results, timeout, radio>>
    /\ UNCHANGED <<devid, sim, t_start, elapsed, sleep_ms, ops>>

\* uwb_wait_resp(): one turn of for (i = 0; i < 3000; i++), which ends in
\* k_msleep(1); uwb_twr_cycle(): k_msleep(5) once uwb_wait_resp returned 0
uwb_wait_resp_poll(L) ==
    /\ pc = "resp"
    /\ i < L.respPolls
    /\ IF "RXFCG" \in status /\ FrameRead(rxframe) /\ IsResponse(rxframe)
       THEN /\ resp_rx_ts' = get_timestamp_u64(rxts)
            /\ poll_rx_ts_anchor' = rx_buffer_stamp(rxframe, 10)
            /\ resp_tx_ts_anchor' = rx_buffer_stamp(rxframe, 15)
            /\ Ra' = wait_resp_interval(resp_rx_ts', poll_tx_ts)
            /\ Db' = wait_resp_interval(resp_tx_ts_anchor', poll_rx_ts_anchor')
            /\ tof' = wait_resp_tof2(Ra', Db')
            /\ calculated_dist_mm' \in CastU32(DistMm(tof'))
            /\ status' = status \ (SYS_STATUS_ALL_RX_GOOD
                                        \cup SYS_STATUS_ALL_RX_ERR)
            /\ cap' = [cap EXCEPT !.respRx = get_timestamp_u64(rxts),
                                  !.pollRx = rx_buffer_stamp(rxframe, 10),
                                  !.respTx = rx_buffer_stamp(rxframe, 15)]
            /\ ev' = Append(ev, "RESP_OK")
            /\ i' = 0
            /\ uptime' = Slept(L, POLL_PAUSE_MS)
            /\ pc' = "final"
       ELSE /\ status' =
                 (status \ (IF "RXFCG" \in status /\ FrameRead(rxframe)
                            THEN SYS_STATUS_ALL_RX_GOOD ELSE {}))
                         \ (IF "RXERR" \in status
                            THEN SYS_STATUS_ALL_RX_ERR ELSE {})
            /\ i' = i + 1
            /\ uptime' = Slept(L, RESP_POLL_MS)
            /\ UNCHANGED <<resp_rx_ts, poll_rx_ts_anchor, resp_tx_ts_anchor,
                           calculated_dist_mm, Ra, Db, tof, hist, pc>>
    /\ UNCHANGED <<ret, seq_num, supv, poll_tx_ts, final_tx_ts, distance,
                   tx_timeout, timeout, trx, resp_expected, txbuf, txts,
                   rxts, rxframe>>
    /\ UNCHANGED <<devid, sim, t_start, elapsed, sleep_ms, ops>>

\* fault: the wait gives up without dwt_forcetrxoff()
uwb_wait_resp_timeout_rx_on(L) ==
    /\ pc = "resp"
    /\ i >= L.respPolls
    /\ i' = 0
    /\ ret' = -1
    /\ pc' = "ret"
    /\ UNCHANGED <<seq_num, supv, stamps, results, tx_timeout, timeout,
                   radio, hist>>
    /\ UNCHANGED <<devid, sim, clk, ops>>

\* fault: uwb_twr_cycle goes on to FINAL when the wait gave up
uwb_wait_resp_timeout_ignored(L) ==
    /\ pc = "resp"
    /\ i >= L.respPolls
    /\ trx' = "IDLE"
    /\ i' = 0
    /\ pc' = "final"
    /\ UNCHANGED <<ret, seq_num, supv, stamps, results, tx_timeout, timeout,
                   status, resp_expected, txbuf, txts, rxts, rxframe, hist>>
    /\ ops' = Append(ops, "dwt_forcetrxoff")
    /\ UNCHANGED <<devid, sim, clk>>

\* uwb_wait_resp(): the loop ran out; dwt_forcetrxoff(); return -1;
uwb_wait_resp_timeout(L) ==
    /\ pc = "resp"
    /\ i >= L.respPolls
    /\ trx' = "IDLE"
    /\ i' = 0
    /\ ret' = -1
    /\ pc' = "ret"
    /\ UNCHANGED <<seq_num, supv, stamps, results, tx_timeout, timeout,
                   status, resp_expected, txbuf, txts, rxts, rxframe, hist>>
    /\ ops' = Append(ops, "dwt_forcetrxoff")
    /\ UNCHANGED <<devid, sim, clk>>

\* fault: FINAL is started without dwt_forcetrxoff()
uwb_send_final_start_busy(L) ==
    /\ pc = "final"
    /\ txbuf' = FinalFrame(seq_num, calculated_dist_mm)
    /\ seq_num' = (seq_num + 1) % L.seqMod
    /\ resp_expected' = FALSE
    /\ timeout' = 0
    /\ \E started \in BOOLEAN :
          IF started
          THEN /\ trx' = "TX"
               /\ ev' = Append(ev, "FINAL_TX")
               /\ pc' = "final_tx"
               /\ UNCHANGED ret
          ELSE /\ trx' = "IDLE"
               /\ ret' = -1
               /\ pc' = "ret"
               /\ UNCHANGED ev
    /\ UNCHANGED <<supv, stamps, results, tx_timeout, i, status, txts, rxts,
                   rxframe, cap>>
    /\ ops' = Append(ops, "dwt_starttx")
    /\ UNCHANGED <<devid, sim, clk>>

\* fault: final_frame[2] = seq_num, the counter left as it is
uwb_send_final_start_reuse(L) ==
    /\ pc = "final"
    /\ txbuf' = FinalFrame(seq_num, calculated_dist_mm)
    /\ seq_num' = seq_num
    /\ resp_expected' = FALSE
    /\ timeout' = 0
    /\ \E started \in BOOLEAN :
          IF started
          THEN /\ trx' = "TX"
               /\ ev' = Append(ev, "FINAL_TX")
               /\ pc' = "final_tx"
               /\ UNCHANGED ret
          ELSE /\ trx' = "IDLE"
               /\ ret' = -1
               /\ pc' = "ret"
               /\ UNCHANGED ev
    /\ UNCHANGED <<supv, stamps, results, tx_timeout, i, status, txts, rxts,
                   rxframe, cap>>
    /\ ops' = ops \o <<"dwt_forcetrxoff", "dwt_starttx">>
    /\ UNCHANGED <<devid, sim, clk>>

\* uwb_send_final() up to dwt_starttx(): frame stamped with seq_num++ and
\* calculated_dist_mm, transceiver forced idle, frame written, TX started
uwb_send_final_start(L) ==
    /\ pc = "final"
    /\ txbuf' = FinalFrame(seq_num, calculated_dist_mm)
    /\ seq_num' = (seq_num + 1) % L.seqMod
    /\ resp_expected' = FALSE
    /\ timeout' = 0
    /\ \E started \in BOOLEAN :
          IF started
          THEN /\ trx' = "TX"
               /\ ev' = Append(ev, "FINAL_TX")
               /\ pc' = "final_tx"
               /\ UNCHANGED ret
          ELSE /\ trx' = "IDLE"
               /\ ret' = -1
               /\ pc' = "ret"
               /\ UNCHANGED ev
    /\ UNCHANGED <<supv, stamps, results, tx_timeout, i, status, txts, rxts,
                   rxframe, cap>>
    /\ ops' = ops \o <<"dwt_forcetrxoff", "dwt_starttx">>
    /\ UNCHANGED <<devid, sim, clk>>

\* uwb_send_final(): one turn of while (timeout < 10000), which clears
\* TXFRS and returns 0 when the flag is set; return -1 once the loop ran out
uwb_send_final_wait(L) ==
    /\ pc = "final_tx"
    /\ IF "TXFRS" \in status
       THEN /\ status' = status \ {"TXFRS"}
            /\ ev' = Append(ev, "FINAL_TXDONE")
            /\ timeout' = 0
            /\ pc' = "calc"
            /\ UNCHANGED ret
       ELSE /\ IF timeout + FINAL_TX_STEP >= L.finalTimeout
               THEN /\ timeout' = 0
                    /\ ret' = -1
                    /\ pc' = "ret"
               ELSE /\ timeout' = timeout + FINAL_TX_STEP
                    /\ UNCHANGED <<ret, pc>>
            /\ UNCHANGED <<status, ev>>
    /\ UNCHANGED <<seq_num, supv, stamps, results, tx_timeout, i, trx,
                   resp_expected, txbuf, txts, rxts, rxframe, cap>>
    /\ UNCHANGED <<devid, sim, clk, ops>>

\* fault: return -1 when the distance is not above 0
uwb_twr_cycle_finish_strict ==
    /\ pc = "calc"
    /\ Ra' = calc_interval(resp_rx_ts, poll_tx_ts)
    /\ Db' = calc_interval(resp_tx_ts_anchor, poll_rx_ts_anchor)
    /\ tof' = calc_tof2(Ra', Db')
    /\ distance' = DistanceMm(tof')
    /\ ev' = Append(ev, "COMPLETE")
    /\ ret' = IF distance' = WZero THEN -1 ELSE 0
    /\ pc' = "ret"
    /\ UNCHANGED <<seq_num, supv, stamps, calculated_dist_mm, loops, radio,
                   cap>>
    /\ UNCHANGED <<devid, sim, clk, ops>>

\* uwb_twr_cycle(): double distance = calculate_distance(); ... return 0;
uwb_twr_cycle_finish ==
    /\ pc = "calc"
    /\ Ra' = calc_interval(resp_rx_ts, poll_tx_ts)
    /\ Db' = calc_interval(resp_tx_ts_anchor, poll_rx_ts_anchor)
    /\ tof' = calc_tof2(Ra', Db')
    /\ distance' = DistanceMm(tof')
    /\ ev' = Append(ev, "COMPLETE")
    /\ ret' = 0
    /\ pc' = "ret"
    /\ UNCHANGED <<seq_num, supv, stamps, calculated_dist_mm, loops, radio,
                   cap>>
    /\ UNCHANGED <<devid, sim, clk, ops>>

(***************************************************************************)
(* The main() of the 20 Hz mode.                                           *)
(***************************************************************************)
\* while (1) { frame_count++; ... ret = uwb_twr_cycle();
\* (this main() reads no clock: t_start keeps, as history, when the
\* iteration started)
main_fast_loop(L) ==
    /\ pc = "loop"
    /\ L.stop => frame_count < L.cycles
    /\ t_start' = uptime
    /\ frame_count' = Sat(frame_count, L.cycles)
    /\ pc' = "cycle"
    /\ UNCHANGED <<ret, seq_num, fail_count, reinits, fail_run, stamps,
                   results, loops, radio, hist>>
    /\ UNCHANGED <<devid, sim, uptime, elapsed, sleep_ms, ops>>

\* if (ret) { printk(failed) } else { printk(complete) }  k_msleep(50); }
main_fast_result(L) ==
    /\ pc = "ret"
    /\ fail_run' = IF ret # 0 THEN Sat(fail_run, L.cycles) ELSE 0
    /\ sleep_ms' = FAST_SLEEP_MS
    /\ uptime' = Slept(L, sleep_ms')
    /\ pc' = "loop"
    /\ UNCHANGED <<ret, seq_num, fail_count, frame_count, reinits, stamps,
                   results, loops, radio, hist>>
    /\ UNCHANGED <<devid, sim, t_start, elapsed, ops>>

(***************************************************************************)
(* uwb_send_blink, and the main() that sends a BLINK every 500 ms.         *)
(***************************************************************************)
\* while (1) { frame_count++; ... ret = uwb_send_blink();
main_blink_loop(L) ==
    /\ pc = "loop"
    /\ L.stop => frame_count < L.cycles
    /\ frame_count' = Sat(frame_count, L.cycles)
    /\ pc' = "blink"
    /\ UNCHANGED <<ret, seq_num, fail_count, reinits, fail_run, stamps,
                   results, loops, radio, devid, hist, sim, clk, ops>>

\* fault: ++seq_num, the frame carries the counter after the step
uwb_send_blink_start_pre(L) ==
    /\ pc = "blink"
    /\ txbuf' = BlinkFrame((seq_num + 1) % L.seqMod)
    /\ seq_num' = (seq_num + 1) % L.seqMod
    /\ resp_expected' = FALSE
    /\ timeout' = 0
    /\ \E started \in BOOLEAN :
          IF started
          THEN /\ trx' = "TX"
               /\ pc' = "blink_tx"
               /\ UNCHANGED ret
          ELSE /\ trx' = "IDLE"
               /\ ret' = -1
               /\ pc' = "sleep"
    /\ ops' = <<"dwt_forcetrxoff", "dwt_starttx">>
    /\ UNCHANGED <<supv, stamps, results, tx_timeout, i, status, txts, rxts,
                   rxframe, devid, hist, sim, clk>>

\* uwb_send_blink() up to dwt_starttx(): frame stamped with seq_num++,
\* transceiver forced idle, frame written, TX started
uwb_send_blink_start(L) ==
    /\ pc = "blink"
    /\ txbuf' = BlinkFrame(seq_num)
    /\ seq_num' = (seq_num + 1) % L.seqMod
    /\ resp_expected' = FALSE
    /\ timeout' = 0
    /\ \E started \in BOOLEAN :
          IF started
          THEN /\ trx' = "TX"
               /\ pc' = "blink_tx"
               /\ UNCHANGED ret
          ELSE /\ trx' = "IDLE"
               /\ ret' = -1
               /\ pc' = "sleep"
    /\ ops' = <<"dwt_forcetrxoff", "dwt_starttx">>
    /\ UNCHANGED <<supv, stamps, results, tx_timeout, i, status, txts, rxts,
                   rxframe, devid, hist, sim, clk>>

\* uwb_send_blink(): one turn of while (timeout < 10000), which clears
\* TXFRS and returns 0 when the flag is set; return -1 once the loop ran
\* out.  main() logs the result and sleeps.
uwb_send_blink_wait(L) ==
    /\ pc = "blink_tx"
    /\ IF "TXFRS" \in status
       THEN /\ status' = status \ {"TXFRS"}
            /\ timeout' = 0
            /\ ret' = 0
            /\ pc' = "sleep"
       ELSE /\ IF timeout + FINAL_TX_STEP >= L.finalTimeout
               THEN /\ timeout' = 0
                    /\ ret' = -1
                    /\ pc' = "sleep"
               ELSE /\ timeout' = timeout + FINAL_TX_STEP
                    /\ UNCHANGED <<ret, pc>>
            /\ UNCHANGED status
    /\ UNCHANGED <<seq_num, supv, stamps, results, tx_timeout, i, trx,
                   resp_expected, txbuf, txts, rxts, rxframe, devid, hist,
                   sim, clk, ops>>

(***************************************************************************)
(* The transceiver and the air.                                            *)
(***************************************************************************)
\* the frame has left the antenna: TXFRS is raised, the TX timestamp is
\* latched, and the receiver is armed when a response is expected
hw_tx_done(L) ==
    /\ trx = "TX"
    /\ status' = status \cup {"TXFRS"}
    /\ txts' \in L.txStamps
    /\ trx' = IF resp_expected THEN "RX" ELSE "IDLE"
    /\ UNCHANGED <<pc, ret, seq_num, supv, stamps, results, loops,
                   resp_expected, txbuf, rxts, rxframe, hist>>
    /\ UNCHANGED <<devid, sim, clk, ops>>

\* a frame with a good FCS arrives: RXFCG is raised, frame and RX
\* timestamp are latched, the receiver goes idle
hw_rx_frame(L) ==
    /\ trx = "RX"
    /\ rxframe' \in L.frames
    /\ rxts' \in L.rxStamps
    /\ status' = status \cup {"RXFCG"}
    /\ trx' = "IDLE"
    /\ UNCHANGED <<pc, ret, seq_num, supv, stamps, results, loops,
                   resp_expected, txbuf, txts, ev>>
    /\ cap' = [cap EXCEPT !.heard = TRUE]
    /\ UNCHANGED <<devid, sim, clk, ops>>

\* the SPI transport to the chip gets well or breaks: the device ID read
\* over it changes.  The ID is looked at when main() boots, by the
\* diagnostic loop's raw_spi_test() and when the watchdog re-initializes.
hw_transport(L) ==
    /\ pc \in L.transportAt
    /\ devid' \in L.devIds \ {devid}
    /\ UNCHANGED <<pc, ret, seq_num, supv, stamps, results, loops, radio,
                   hist, sim, clk, ops>>

\* time passes that the firmware does not sleep: busy waits, SPI transfers,
\* logging, the retries of uwb_driver_init
hw_clock(L) ==
    /\ L.clock
    /\ pc \in {"cycle", "poll", "poll_tx", "resp", "final", "final_tx", "calc",
               "ret", "sleep"}
    /\ (uptime + TickMs) - t_start <= MaxElapsedMs
    /\ uptime' = uptime + TickMs
    /\ UNCHANGED <<pc, ret, seq_num, supv, stamps, results, loops, radio,
                   devid, hist, sim, t_start, elapsed, sleep_ms, ops>>

\* a reception fails (FCS, PHR, sync loss): an RX error flag is raised
hw_rx_error ==
    /\ trx = "RX"
    /\ status' = status \cup {"RXERR"}
    /\ trx' = "IDLE"
    /\ UNCHANGED <<pc, ret, seq_num, supv, stamps, results, loops,
                   resp_expected, txbuf, txts, rxts, rxframe, hist>>
    /\ UNCHANGED <<devid, sim, clk, ops>>

(***************************************************************************)
(* uwb_driver.c: the driver that builds its frames with                    *)
(* build_ieee802154_frame and takes its timestamps from the system clock.  *)
(***************************************************************************)
\* uwb_send_blink() of uwb_driver.c: a BEACON frame carrying tag_info
uwb_driver_send_blink ==
    /\ pc = "drv"
    /\ LET b == build_ieee802154_frame(frame_seq_num, MSG_TYPE_BEACON,
                                       tag_info(frame_seq_num))
       IN  /\ frame' = b.bytes
           /\ frame_len' = b.len
    /\ call' = [frame |-> TRUE, msg_type |-> MSG_TYPE_BEACON,
                has_payload |-> TRUE, payload |-> tag_info(frame_seq_num),
                payload_len |-> 8]
    /\ frame_seq_num' = (frame_seq_num + 1) % SEQ_MOD
    /\ ret' = 0
    /\ UNCHANGED <<pc, seq_num, supv, stamps, results, loops, radio, devid,
                   hist, t1_poll_tx, t4_resp_rx, clk, ops>>

\* uwb_twr_cycle() of uwb_driver.c up to the wait for the RESPONSE:
\* uwb_send_twr_poll() builds a POLL without payload, T1 is read from the
\* system clock
uwb_send_twr_poll ==
    /\ pc = "drv"
    /\ LET b == build_ieee802154_frame(frame_seq_num, FUNC_CODE_POLL, <<>>)
       IN  /\ frame' = b.bytes
           /\ frame_len' = b.len
    /\ call' = [frame |-> TRUE, msg_type |-> FUNC_CODE_POLL,
                has_payload |-> FALSE, payload |-> <<>>, payload_len |-> 0]
    /\ frame_seq_num' = (frame_seq_num + 1) % SEQ_MOD
    /\ \E up \in Uptimes : t1_poll_tx' = up * 1000
    /\ t4_resp_rx' = 0
    /\ pc' = "drv_resp"
    /\ UNCHANGED <<ret, seq_num, supv, stamps, results, loops, radio, devid,
                   hist, clk, ops>>

\* uwb_twr_cycle() of uwb_driver.c from k_msleep(50) on: T4 is read from the
\* system clock, the FINAL is built with T1 and T4 as its payload
uwb_driver_twr_cycle_final ==
    /\ pc = "drv_resp"
    /\ \E late \in 0..MaxLateMs :
          t4_resp_rx' = t1_poll_tx + ((SLEEP_RESP_MS + late) * 1000)
    /\ LET b == build_ieee802154_frame(frame_seq_num, MSG_TYPE_FINAL,
                     LEBytes(t1_poll_tx, 8) \o LEBytes(t4_resp_rx', 8))
       IN  /\ frame' = b.bytes
           /\ frame_len' = b.len
    /\ call' = [frame |-> TRUE, msg_type |-> MSG_TYPE_FINAL,
                has_payload |-> TRUE,
                payload |-> LEBytes(t1_poll_tx, 8) \o LEBytes(t4_resp_rx', 8),
                payload_len |-> 16]
    /\ frame_seq_num' = (frame_seq_num + 1) % SEQ_MOD
    /\ ret' = 0
    /\ pc' = "drv"
    /\ UNCHANGED <<seq_num, supv, stamps, results, loops, radio, devid, hist,
                   t1_poll_tx, clk, ops>>

\* a payload buffer of n bytes, none of them 0
PayloadOf(n) == [j \in 1..n |-> 1 + (j % UINT8_MAX)]

\* the payload lengths tried: none, the lengths the driver uses, and the
\* lengths around the 32 bytes of the structure, up to the largest uint8_t
PayloadLens ==
    {0, 1, 8, 16, PAYLOAD_MAX - 1, PAYLOAD_MAX, PAYLOAD_MAX + 1, UINT8_MAX}

\* the calls of build_ieee802154_frame tried: frame and payload null or
\* not, every message type of the driver, every length of PayloadLens
Calls ==
    {[frame |-> f, msg_type |-> t, has_payload |-> h, payload |-> PayloadOf(n),
      payload_len |-> n] :
        f \in BOOLEAN, h \in BOOLEAN, n \in PayloadLens,
        t \in {FUNC_CODE_POLL, MSG_TYPE_FINAL, MSG_TYPE_BEACON}}

\* build_ieee802154_frame() called with any of Calls
build_ieee802154_frame_any ==
    /\ pc = "drv"
    /\ frame_seq_num < MaxBuilds
    /\ \E c \in Calls :
          LET r == build_frame_call(c, frame_seq_num, frame)
          IN  /\ call' = c
              /\ frame' = r.bytes
              /\ frame_len' = r.ret
              /\ frame_seq_num' = r.seq
    /\ UNCHANGED <<pc, ret, seq_num, supv, stamps, results, loops, radio,
                   devid, hist, t1_poll_tx, t4_resp_rx, clk, ops>>

(***************************************************************************)
(* Specifications.                                                         *)
(***************************************************************************)
\* main() is entered: nothing has run, the device ID that the chip gives
\* over SPI is one of ids
InitBoot(ids) ==
    /\ pc = "boot"
    /\ ret = 0
    /\ fail_count = 0
    /\ frame_count = 0
    /\ seq_num = 0
    /\ poll_tx_ts = WZero
    /\ resp_rx_ts = WZero
    /\ final_tx_ts = WZero
    /\ poll_rx_ts_anchor = WZero
    /\ resp_tx_ts_anchor = WZero
    /\ calculated_dist_mm = WZero
    /\ distance = NONE
    /\ Ra = NONE
    /\ Db = NONE
    /\ tof = NONE
    /\ tx_timeout = 0
    /\ i = 0
    /\ timeout = 0
    /\ status = {}
    /\ trx = "IDLE"
    /\ resp_expected = FALSE
    /\ txbuf = <<>>
    /\ txts = ZeroStamp
    /\ rxts = ZeroStamp
    /\ rxframe = NoFrame
    /\ devid \in ids
    /\ NoFrameBuilt
    /\ NoIteration
    /\ ops = <<>>
    /\ ev = <<>>
    /\ cap = NoCap
    /\ reinits = 0
    /\ fail_run = 0

Init == InitBoot(Scaled.devIds)

\* one step of the firmware
Firmware(L) ==
    \/ main_boot(L)
    \/ main_diag
    \/ main_loop(L)
    \/ uwb_twr_cycle_reset
    \/ uwb_send_poll_start(L)
    \/ uwb_send_poll_wait(L)
    \/ uwb_wait_resp_poll(L)
    \/ uwb_wait_resp_timeout(L)
    \/ uwb_send_final_start(L)
    \/ uwb_send_final_wait(L)
    \/ uwb_twr_cycle_finish
    \/ main_result(L)
    \/ main_sleep(L)

\* one event of the transceiver
Hardware(L) ==
    \/ hw_tx_done(L)
    \/ hw_rx_frame(L)
    \/ hw_rx_error
    \/ hw_transport(L)

Next == Firmware(Scaled) \/ Hardware(Scaled)

Spec == Init /\ [][Next]_vars

\* The firmware with the loop budgets of the source, for a few cycles.
NextFull == Firmware(Full) \/ Hardware(Full)

SpecFull == Init /\ [][NextFull]_vars

\* The firmware running without end.  It is one thread that the scheduler
\* always runs again (every wait is a timed sleep or a busy wait), so the
\* firmware takes a step whenever it can; nothing is assumed of the
\* transceiver or of the anchor.
NextLive == Firmware(Live) \/ Hardware(Live)

SpecLive == Init /\ [][NextLive]_vars /\ WF_vars(Firmware(Live))

\* The interval arithmetic on its own: a cycle that has transmitted POLL
\* and received a RESPONSE, for every combination of the four timestamps
\* within MaxOff of either end of the 40-bit counter.
EdgeStamps ==
    {W(n) : n \in 0..MaxOff} \cup {WSub(TWO40, W(n)) : n \in 1..MaxOff}

\* the 5 bytes in which the DW3000 holds a 40-bit timestamp, least
\* significant first
StampBytes(w) ==
    <<w[2] % 256,
      (w[2] \div 256) % 256,
      (w[2] \div 65536) + ((w[1] % 16) * 16),
      (w[1] \div 16) % 256,
      w[1] \div 4096>>

\* POLL is on its way out and the frame that answers it is already in: the
\* timestamp registers hold values of S, the RX buffer a frame of F
InitFrames(S, F) ==
    /\ pc = "poll_tx"
    /\ ret = 0
    /\ fail_count = 0
    /\ frame_count = 1
    /\ seq_num = 1
    /\ poll_tx_ts = WZero
    /\ resp_rx_ts = WZero
    /\ final_tx_ts = WZero
    /\ poll_rx_ts_anchor = WZero
    /\ resp_tx_ts_anchor = WZero
    /\ calculated_dist_mm = WZero
    /\ distance = NONE
    /\ Ra = NONE
    /\ Db = NONE
    /\ tof = NONE
    /\ tx_timeout = 0
    /\ i = 0
    /\ timeout = 0
    /\ status = {"TXFRS", "RXFCG"}
    /\ trx = "IDLE"
    /\ resp_expected = TRUE
    /\ txbuf = PollFrame(0)
    /\ txts \in {StampBytes(w) : w \in S}
    /\ rxts \in {StampBytes(w) : w \in S}
    /\ rxframe \in F
    /\ devid = DEV_ID_DW3000
    /\ NoFrameBuilt
    /\ NoIteration
    /\ ops = <<>>
    /\ ev = <<"POLL_TX">>
    /\ cap = [NoCap EXCEPT !.heard = TRUE, !.pollSeq = 0]
    /\ reinits = 0
    /\ fail_run = 0

\* the frame is a RESPONSE whose two timestamps are values of S
InitStamps(S) ==
    InitFrames(S, {Response(<<StampBytes(a), StampBytes(b)>>) :
                       a \in S, b \in S})

InitElapsed == InitStamps(EdgeStamps)

NextElapsed ==
    \/ uwb_send_poll_wait(Scaled)
    \/ uwb_wait_resp_poll(Scaled)
    \/ uwb_send_final_start(Scaled)
    \/ uwb_send_final_wait(Scaled)
    \/ uwb_twr_cycle_finish
    \/ hw_tx_done(Scaled)

SpecElapsed == InitElapsed /\ [][NextElapsed]_vars

\* The same steps on the timestamps of a ranging exchange over a short
\* distance: POLL sent at 0, RESPONSE received at 300, the anchor's POLL RX
\* at 1000 and RESPONSE TX at 1100, in every combination.
ExchangeStamps == {W(0), W(300), W(1000), W(1100)}

InitExchange == InitStamps(ExchangeStamps)

SpecExchange == InitExchange /\ [][NextElapsed]_vars

\* The same steps on timestamps that put distances of one to four
\* significant bytes, and distances no uint32_t holds, into the FINAL.
DistStamps ==
    {W(0), W(90), W(70000), W((2^24) + 77), W((2^30) + 123456),
     WSub(TWO40, W(MaxOff))}

InitFinal == InitStamps(DistStamps)

SpecFinal == InitFinal /\ [][NextElapsed]_vars

\* The decoding of a RESPONSE: RESPONSEs of 20 and of more bytes, with the
\* header of the anchor or any other header, carrying every combination of
\* StampPatterns in bytes 10..14 and 15..19; the timestamp registers hold
\* 0, 300 or the largest timestamp.
StampPatterns ==
    {ZeroStamp, <<1, 2, 3, 4, 5>>, <<0, 0, 0, 0, 128>>, TS_WRAP,
     <<255, 255, 255, 255, 255>>}

DecodeFrames ==
    {[Response(<<a, b>>) EXCEPT !.b0 = h, !.b20 = t, !.len = 20 + Len(t)] :
        a \in StampPatterns, b \in StampPatterns,
        h \in {Response(<<ZeroStamp, ZeroStamp>>).b0,
               <<255, 255, 255, 255, 255, 255, 255, 255, 255>>},
        t \in {<<>>, <<170, 85, 255, 1>>}}

InitDecode ==
    InitFrames({W(0), W(300), WSub(TWO40, W(1))}, DecodeFrames)

SpecDecode == InitDecode /\ [][NextElapsed]_vars

\* The filter of the RESPONSE wait: the frame in the RX buffer has the
\* header of the anchor's RESPONSE to this tag or the header of a frame of
\* another network to another tag, type RESPONSE or POLL, and a reported
\* length on either side of 20 and of 128.
FilterFrames ==
    {[Response(<<TS_1000, TS_1100>>)
         EXCEPT !.b0 = h, !.type = t, !.len = n] :
        h \in {Response(<<ZeroStamp, ZeroStamp>>).b0,
               <<65, 136, 77, 52, 18, 3, 0, 9, 0>>},
        t \in {FUNC_CODE_RESP, FUNC_CODE_POLL},
        n \in {0, RESP_MIN_LEN - 1, RESP_MIN_LEN, RX_BUFFER_LEN - 1,
               RX_BUFFER_LEN}}

InitFilter == InitFrames({W(0), W(300)}, FilterFrames)

NextFilter == NextElapsed \/ uwb_wait_resp_timeout(Scaled)

SpecFilter == InitFilter /\ [][NextFilter]_vars

\* The sequence counter: the driver after FramesSent cycles that each got
\* no further than encoding a POLL, from where uwb_twr_cycle (with main's
\* failure counting) and uwb_send_blink are called in any order.
Counting ==
    [Scaled EXCEPT !.cycles = MaxSeqCycles,
                   !.frames = {Response(<<TS_1000, TS_1100>>),
                               [Response(<<TS_1000, TS_1100>>)
                                   EXCEPT !.type = FUNC_CODE_POLL]}]

FramesSent == (SEQ_MOD - MaxSeqBack)..(SEQ_MOD - 1)

\* main() between two iterations, after K failed cycles that each encoded a
\* POLL and nothing else
InitSent(K) ==
    /\ pc = "loop"
    /\ ret = -1
    /\ \E k \in K :
          /\ seq_num = k % SEQ_MOD
          /\ fail_count = k % FAIL_THRESHOLD
          /\ fail_run = k % FAIL_THRESHOLD
          /\ txbuf = PollFrame((k - 1) % SEQ_MOD)
          /\ cap = [NoCap EXCEPT !.pollSeq = (k - 1) % SEQ_MOD]
    /\ frame_count = 0
    /\ reinits = 0
    /\ poll_tx_ts = WZero
    /\ resp_rx_ts = WZero
    /\ final_tx_ts = WZero
    /\ poll_rx_ts_anchor = WZero
    /\ resp_tx_ts_anchor = WZero
    /\ calculated_dist_mm = WZero
    /\ distance = NONE
    /\ Ra = NONE
    /\ Db = NONE
    /\ tof = NONE
    /\ tx_timeout = 0
    /\ i = 0
    /\ timeout = 0
    /\ status = {}
    /\ trx = "IDLE"
    /\ resp_expected = FALSE
    /\ txts = ZeroStamp
    /\ rxts = ZeroStamp
    /\ rxframe = NoFrame
    /\ devid = DEV_ID_DW3000
    /\ NoFrameBuilt
    /\ ops = <<>>
    /\ ev = <<>>

InitSeq == InitSent(FramesSent) /\ NoIteration

NextSeq ==
    \/ main_loop(Counting)
    \/ uwb_twr_cycle_reset
    \/ uwb_send_poll_start(Counting)
    \/ uwb_send_poll_wait(Counting)
    \/ uwb_wait_resp_poll(Counting)
    \/ uwb_wait_resp_timeout(Counting)
    \/ uwb_send_final_start(Counting)
    \/ uwb_send_final_wait(Counting)
    \/ uwb_twr_cycle_finish
    \/ main_result(Counting)
    \/ main_sleep(Counting)
    \/ main_blink_loop(Counting)
    \/ uwb_send_blink_start(Counting)
    \/ uwb_send_blink_wait(Counting)
    \/ hw_tx_done(Counting)
    \/ hw_rx_frame(Counting)
    \/ hw_rx_error

SpecSeq == InitSeq /\ [][NextSeq]_vars

\* The sequence counter under main()'s ranging loop alone, from the same
\* frame counts.
NextPairs ==
    \/ main_loop(Counting)
    \/ uwb_twr_cycle_reset
    \/ uwb_send_poll_start(Counting)
    \/ uwb_send_poll_wait(Counting)
    \/ uwb_wait_resp_poll(Counting)
    \/ uwb_wait_resp_timeout(Counting)
    \/ uwb_send_final_start(Counting)
    \/ uwb_send_final_wait(Counting)
    \/ uwb_twr_cycle_finish
    \/ main_result(Counting)
    \/ main_sleep(Counting)
    \/ hw_tx_done(Counting)
    \/ hw_rx_frame(Counting)
    \/ hw_rx_error

SpecPairs == InitSeq /\ [][NextPairs]_vars

\* The firmware next to an anchor whose RESPONSE may report a reply delay
\* (1095) above the round trip the tag measures (295), next to RESPONSEs
\* with a reply delay of 100 and to frames of another type.
Clamping ==
    [Scaled EXCEPT !.frames = {Response(<<TS_5, TS_1100>>),
                               Response(<<TS_1000, TS_1100>>),
                               [Response(<<TS_1000, TS_1100>>)
                                   EXCEPT !.type = FUNC_CODE_POLL]}]

NextClamp == Firmware(Clamping) \/ Hardware(Clamping)

SpecClamp == Init /\ [][NextClamp]_vars

\* The watchdog over a transport that may break and get well again between
\* a failed cycle and the re-initialization, for long enough to see two
\* re-initializations.
Stuck ==
    [Scaled EXCEPT !.cycles = MaxStuckCycles,
                   !.frames = {Response(<<TS_1000, TS_1100>>)},
                   !.devIds = {DEV_ID_DW3000, DEV_ID_ONES},
                   !.transportAt = {"boot", "diag", "ret"}]

NextStuck == Firmware(Stuck) \/ Hardware(Stuck)

SpecStuck == InitBoot(Stuck.devIds) /\ [][NextStuck]_vars

\* The cadence of the supervisor: the loop with the clock running, picked up
\* one or two failed cycles before the watchdog re-initializes.
Timed ==
    [Scaled EXCEPT !.clock = TRUE,
                   !.cycles = MaxTimedCycles,
                   !.frames = {Response(<<TS_1000, TS_1100>>),
                               [Response(<<TS_1000, TS_1100>>)
                                   EXCEPT !.type = FUNC_CODE_POLL]}]

InitCadence ==
    /\ InitSent({FAIL_THRESHOLD - 2, FAIL_THRESHOLD - 1})
    /\ uptime = StartUptimeMs
    /\ t_start = StartUptimeMs - TAG_TWR_PERIOD_MS
    /\ elapsed = 0
    /\ sleep_ms = TAG_TWR_PERIOD_MS

NextCadence ==
    \/ main_loop(Timed)
    \/ uwb_twr_cycle_reset
    \/ uwb_send_poll_start(Timed)
    \/ uwb_send_poll_wait(Timed)
    \/ uwb_wait_resp_poll(Timed)
    \/ uwb_wait_resp_timeout(Timed)
    \/ uwb_send_final_start(Timed)
    \/ uwb_send_final_wait(Timed)
    \/ uwb_twr_cycle_finish
    \/ main_result(Timed)
    \/ main_sleep(Timed)
    \/ hw_tx_done(Timed)
    \/ hw_rx_frame(Timed)
    \/ hw_rx_error
    \/ hw_clock(Timed)

SpecCadence == InitCadence /\ [][NextCadence]_vars

\* The firmware built as the 20 Hz mode, with the clock running on the
\* sleeps of the firmware.
Fast ==
    [Scaled EXCEPT !.clock = TRUE,
                   !.period = FAST_SLEEP_MS,
                   !.cycles = MaxFastCycles,
                   !.respPolls = 1,
                   !.frames = {Response(<<TS_1000, TS_1100>>)}]

NextFast ==
    \/ main_boot(Fast)
    \/ main_diag
    \/ main_fast_loop(Fast)
    \/ uwb_twr_cycle_reset
    \/ uwb_send_poll_start(Fast)
    \/ uwb_send_poll_wait(Fast)
    \/ uwb_wait_resp_poll(Fast)
    \/ uwb_wait_resp_timeout(Fast)
    \/ uwb_send_final_start(Fast)
    \/ uwb_send_final_wait(Fast)
    \/ uwb_twr_cycle_finish
    \/ main_fast_result(Fast)
    \/ Hardware(Fast)

SpecFast == Init /\ [][NextFast]_vars

\* The probing of the chip: the unbounded run with every kind of device ID.
Probe ==
    [Live EXCEPT !.devIds = {DEV_ID_DW3000, DEV_ID_ZERO, DEV_ID_ONES,
                             DEV_ID_UNKNOWN}]

NextProbe == Firmware(Probe) \/ Hardware(Probe)

SpecProbe == InitBoot(Probe.devIds) /\ [][NextProbe]_vars

\* The firmware linked with uwb_driver.c, after uwb_driver_init.
InitDriver ==
    /\ pc = "drv"
    /\ ret = 0
    /\ fail_count = 0
    /\ frame_count = 0
    /\ seq_num = 0
    /\ poll_tx_ts = WZero
    /\ resp_rx_ts = WZero
    /\ final_tx_ts = WZero
    /\ poll_rx_ts_anchor = WZero
    /\ resp_tx_ts_anchor = WZero
    /\ calculated_dist_mm = WZero
    /\ distance = NONE
    /\ Ra = NONE
    /\ Db = NONE
    /\ tof = NONE
    /\ tx_timeout = 0
    /\ i = 0
    /\ timeout = 0
    /\ status = {}
    /\ trx = "IDLE"
    /\ resp_expected = FALSE
    /\ txbuf = <<>>
    /\ txts = ZeroStamp
    /\ rxts = ZeroStamp
    /\ rxframe = NoFrame
    /\ devid = DEV_ID_DW3000
    /\ NoFrameBuilt
    /\ NoIteration
    /\ ops = <<>>
    /\ ev = <<>>
    /\ cap = NoCap
    /\ reinits = 0
    /\ fail_run = 0

NextDriver ==
    \/ uwb_driver_send_blink
    \/ uwb_send_twr_poll
    \/ uwb_driver_twr_cycle_final

SpecDriver == InitDriver /\ [][NextDriver]_vars

\* build_ieee802154_frame on its own, from the first call on.
SpecBuild == InitDriver /\ [][build_ieee802154_frame_any]_vars

\* Every frame encoder of the repository: the firmware linked with
\* uwb_driver_qorvo.c or with uwb_driver.c.
InitCodec == InitSeq \/ InitDriver

NextCodec == NextSeq \/ NextDriver

SpecCodec == InitCodec /\ [][NextCodec]_vars

(***************************************************************************)
(* Claims.                                                                 *)
(***************************************************************************)
IsPrefix(a, b) == Len(a) <= Len(b) /\ SubSeq(b, 1, Len(a)) = a

CycleOrder ==
    <<"POLL_TX", "POLL_TXDONE", "RESP_OK", "FINAL_TX", "FINAL_TXDONE",
      "COMPLETE">>

Events == {ev[k] : k \in 1..Len(ev)}

\* the FINAL frame is still being transmitted
FinalOnAir == trx = "TX" /\ Len(txbuf) >= 10 /\ txbuf[10] = MSG_TYPE_FINAL

\* C1: within a cycle the events occur only in the order POLL transmitted,
\* POLL TX-done confirmed, valid RESPONSE accepted, FINAL transmitted, FINAL
\* TX-done confirmed, Complete; RESPONSE is awaited only after POLL TX-done,
\* FINAL is transmitted only after a valid RESPONSE was accepted, and the
\* cycle reports Complete only after the FINAL transmission is done.
C1_CycleOrder ==
    /\ IsPrefix(ev, CycleOrder)
    /\ pc = "resp" => "POLL_TXDONE" \in Events
    /\ "FINAL_TX" \in Events => "RESP_OK" \in Events
    /\ "COMPLETE" \in Events => "FINAL_TXDONE" \in Events /\ ~FinalOnAir

\* C2: ten failed cycles in a row from boot call uwb_driver_init exactly
\* once and leave fail_count at 0; when cycle 11 then succeeds, fail_count
\* stays 0 and uwb_driver_init is not called again.
C2_TenFailuresOneReinit ==
    [][ /\ (pc' = "sleep" /\ frame_count' = 10 /\ fail_run' = 10)
            => (reinits' = 1 /\ fail_count' = 0)
        /\ (pc = "ret" /\ pc' = "sleep" /\ frame_count = 11 /\ fail_run = 10
              /\ ret = 0)
            => (reinits = 1 /\ fail_count = 0
                /\ reinits' = 1 /\ fail_count' = 0) ]_vars

C2_Witness ==
    /\ pc = "sleep" /\ frame_count = 11 /\ fail_run = 0
    /\ reinits = 1 /\ fail_count = 0

\* C3: a successful cycle sets fail_count to 0; a failed cycle adds exactly
\* 1 to it, and the failure that makes it 10 re-initializes and sets it to
\* 0; uwb_driver_init is called by the loop only then, on the 10th failure
\* of an unbroken run of failed cycles; every iteration starts with
\* fail_count in 0..9.
C3_FailureCounter ==
    [][ /\ pc' = "loop" => fail_count' \in 0..(FAIL_THRESHOLD - 1)
        /\ (pc = "ret" /\ pc' = "sleep" /\ ret = 0)
             => (fail_count' = 0 /\ reinits' = reinits)
        /\ (pc = "ret" /\ pc' = "sleep" /\ ret # 0)
             => IF fail_count + 1 = FAIL_THRESHOLD
                THEN fail_count' = 0 /\ reinits' = reinits + 1
                ELSE fail_count' = fail_count + 1 /\ reinits' = reinits
        /\ reinits' # reinits
             => (pc = "ret" /\ pc' = "sleep" /\ ret # 0 /\ fail_run' > 0
                 /\ fail_run' % FAIL_THRESHOLD = 0) ]_vars

C3_Witness ==
    /\ pc = "loop" /\ reinits = 1 /\ fail_count = 1 /\ frame_count = 11

\* C4: once the loop is entered, every cycle ends with a definite outcome
\* (0 or -1) and, whatever the outcome, the supervisor starts a next cycle.
C4_LoopNeverStops ==
    /\ (pc = "loop") ~> (pc = "cycle")
    /\ (pc = "cycle") ~> (pc = "ret" /\ ret \in {0, -1})
    /\ (pc = "ret") ~> (pc = "cycle")

C4_Witness == pc = "cycle" /\ ret = -1 /\ fail_count > 0

\* C5: the RESPONSE wait polls the status at most 3000 times; every turn
\* that accepts no RESPONSE counts one up; the wait ends without a RESPONSE
\* only when 3000 turns are used up, and then the transceiver is forced
\* idle and the cycle returns -1 with no FINAL transmitted.
C5_ResponseWaitGivesUp ==
    [][ pc = "resp" =>
          /\ i <= RESP_POLL_LIMIT
          /\ (pc' = "resp" /\ i' # i) => i' = i + 1
          /\ (i = RESP_POLL_LIMIT /\ pc' # pc) => pc' = "ret"
          /\ pc' = "ret" =>
                /\ i = RESP_POLL_LIMIT
                /\ trx' = "IDLE"
                /\ ret' = -1
                /\ ev' = ev
                /\ "FINAL_TX" \notin Events
                /\ txbuf' = txbuf /\ txbuf[10] = FUNC_CODE_POLL ]_vars

C5_Witness ==
    /\ pc = "ret" /\ ret = -1 /\ trx = "IDLE"
    /\ "POLL_TXDONE" \in Events /\ "RESP_OK" \notin Events
    /\ rxframe.type = FUNC_CODE_POLL

\* a frame was received that is too short or of another type than RESPONSE
InvalidFramePending ==
    /\ "RXFCG" \in status
    /\ ~(rxframe.len >= RESP_MIN_LEN /\ rxframe.type = FUNC_CODE_RESP)

\* C6: the RESPONSE wait accepts a frame only if its length is at least 20
\* and its byte 9 is 0x50; while a shorter frame or a frame of another type
\* is the one received, no step accepts it, the session timestamps stay as
\* they are, and the cycle ends only by the poll budget running out.
C6_ResponseFilter ==
    [][ pc = "resp" =>
          /\ pc' = "final" =>
                /\ "RXFCG" \in status
                /\ rxframe.len >= RESP_MIN_LEN
                /\ rxframe.type = FUNC_CODE_RESP
          /\ InvalidFramePending =>
                /\ pc' # "final"
                /\ stamps' = stamps
                /\ i' = i + 1 => (pc' = "resp" /\ ret' = ret)
                /\ pc' = "ret" => i >= Scaled.respPolls ]_vars

C6_Witness ==
    /\ pc = "resp" /\ i > 0 /\ "RXFCG" \notin status
    /\ rxframe.len < RESP_MIN_LEN /\ rxframe.type = FUNC_CODE_RESP

\* the cycle took over all four timestamps
Captured ==
    /\ cap.pollTx # NONE /\ cap.respRx # NONE
    /\ cap.pollRx # NONE /\ cap.respTx # NONE

\* C7: the distance placed in FINAL and the distance calculate_distance
\* returns are computed from the POLL TX and RESPONSE RX timestamps and the
\* two remote timestamps that this very cycle took over, whatever cycles
\* went before.
C7_NoStaleTimestamps ==
    /\ "FINAL_TX" \in Events =>
          /\ Captured
          /\ calculated_dist_mm \in
                CastU32(DistMm(wait_resp_tof2(
                    wait_resp_interval(cap.respRx, cap.pollTx),
                    wait_resp_interval(cap.respTx, cap.pollRx))))
          /\ txbuf = FinalFrame(txbuf[3], calculated_dist_mm)
    /\ "COMPLETE" \in Events =>
          /\ Captured
          /\ <<poll_tx_ts, resp_rx_ts, poll_rx_ts_anchor, resp_tx_ts_anchor>>
                = <<cap.pollTx, cap.respRx, cap.pollRx, cap.respTx>>
          /\ distance =
                DistanceMm(calc_tof2(calc_interval(cap.respRx, cap.pollTx),
                                     calc_interval(cap.respTx, cap.pollRx)))

C7_Witness ==
    /\ pc = "ret" /\ "COMPLETE" \in Events /\ reinits = 1
    /\ cap.pollRx = get_timestamp_u64(TS_WRAP)

\* C8: when a cycle begins, all four session timestamps are zero, the two
\* remote ones included.
C8_AllTimestampsReset ==
    pc = "poll" =>
        /\ poll_tx_ts = WZero
        /\ resp_rx_ts = WZero
        /\ poll_rx_ts_anchor = WZero
        /\ resp_tx_ts_anchor = WZero

\* a mod 2^40
Mod40(a) == <<a[1] % LIMB, a[2]>>

\* elapsed(later, earlier) of the claims, on the interval e the code computed
ElapsedIs(e, later, earlier) ==
    /\ e = Mod40(WSub(later, earlier))
    /\ ~WGe(later, earlier) => e = WSub(WAdd(later, TWO40), earlier)
    /\ (later = W(5) /\ earlier = WSub(TWO40, W(3))) => e = W(8)

\* C9: the round trip and the reply delay, in uwb_wait_resp and in
\* calculate_distance, are (later - earlier) mod 2^40: 2^40 is added before
\* subtracting when later < earlier, and elapsed(5, 2^40 - 3) = 8.
C9_ElapsedMod40 ==
    "RESP_OK" \in Events =>
        /\ ElapsedIs(Ra, resp_rx_ts, poll_tx_ts)
        /\ ElapsedIs(Db, resp_tx_ts_anchor, poll_rx_ts_anchor)

C9_Witness ==
    /\ "COMPLETE" \in Events
    /\ resp_rx_ts = W(5) /\ poll_tx_ts = WSub(TWO40, W(3)) /\ Ra = W(8)
    /\ WGe(resp_tx_ts_anchor, poll_rx_ts_anchor)

\* C10: the round trip and the reply delay are in [0, 2^40), and 0 when
\* later and earlier are equal.
C10_ElapsedRange ==
    "RESP_OK" \in Events =>
        /\ WGe(Ra, WZero) /\ ~WGe(Ra, TWO40)
        /\ WGe(Db, WZero) /\ ~WGe(Db, TWO40)
        /\ resp_rx_ts = poll_tx_ts => Ra = WZero
        /\ resp_tx_ts_anchor = poll_rx_ts_anchor => Db = WZero

C10_Witness ==
    /\ "COMPLETE" \in Events
    /\ resp_rx_ts = poll_tx_ts /\ poll_tx_ts = WSub(TWO40, W(1)) /\ Ra = WZero
    /\ Db = WSub(TWO40, W(1))

\* roundTrip and replyDelay of the timestamps the session holds
RoundTrip == Mod40(WSub(resp_rx_ts, poll_tx_ts))

ReplyDelay == Mod40(WSub(resp_tx_ts_anchor, poll_rx_ts_anchor))

\* C11: when replyDelay > roundTrip the time of flight and the distance are
\* 0, in FINAL and in the result of calculate_distance, and what
\* uwb_twr_cycle hands its caller (its return value, nothing else) differs
\* from the 0 of a cycle whose distance was not clamped.
C11_ClampLowConfidence ==
    ~WGe(RoundTrip, ReplyDelay) =>
        /\ "RESP_OK" \in Events => (tof = WZero /\ calculated_dist_mm = WZero)
        /\ "FINAL_TX" \in Events => txbuf = FinalFrame(txbuf[3], WZero)
        /\ "COMPLETE" \in Events =>
              (tof = WZero /\ distance = WZero /\ ret # 0)

\* C12: with roundTrip = replyDelay the time of flight and the distance
\* are 0, also when a timestamp pair crosses the 40-bit wraparound.
C12_ZeroAtEqualDelays ==
    RoundTrip = ReplyDelay =>
        /\ "RESP_OK" \in Events => (tof = WZero /\ calculated_dist_mm = WZero)
        /\ "COMPLETE" \in Events => (tof = WZero /\ distance = WZero)

C12_Witness ==
    /\ "COMPLETE" \in Events /\ RoundTrip = ReplyDelay /\ RoundTrip # WZero
    /\ ~WGe(resp_rx_ts, poll_tx_ts)
    /\ WGe(resp_tx_ts_anchor, poll_rx_ts_anchor)

\* C13 as stated: with roundTrip = 2 * replyDelay + D, D > 0, the time of
\* flight is D/2 (tof holds the doubled time of flight, so tof = D).
C13_TofOfTwiceDelayPlusD ==
    ("COMPLETE" \in Events
       /\ WGe(RoundTrip, WAdd(WAdd(ReplyDelay, ReplyDelay), W(1))))
      => tof = WSub(RoundTrip, WAdd(ReplyDelay, ReplyDelay))

\* C13 amended: with roundTrip = replyDelay + D, D > 0, the time of flight
\* is D/2, that is (roundTrip - replyDelay) / 2 (tof = D).
C13_TofOfDelayPlusD ==
    ("COMPLETE" \in Events /\ WGe(RoundTrip, WAdd(ReplyDelay, W(1))))
      => tof = WSub(RoundTrip, ReplyDelay)

C13_Witness ==
    /\ "COMPLETE" \in Events
    /\ ReplyDelay = W(2) /\ RoundTrip = W(5) /\ tof = W(3)

\* C14: POLL sent at 0, RESPONSE received at 300, the RESPONSE carrying
\* 1000 and 1100: roundTrip is 300, replyDelay is 100 and the time of
\* flight is 100 DTU (tof = 200), in uwb_wait_resp and in calculate_distance.
C14_ExchangeExample ==
    ("RESP_OK" \in Events
       /\ poll_tx_ts = W(0) /\ rxts = TS_300
       /\ rxframe = Response(<<TS_1000, TS_1100>>))
      => (Ra = W(300) /\ Db = W(100) /\ tof = W(200))

C14_Witness ==
    /\ "COMPLETE" \in Events
    /\ poll_tx_ts = W(0) /\ rxts = TS_300
    /\ rxframe = Response(<<TS_1000, TS_1100>>)
    /\ Ra = W(300) /\ Db = W(100) /\ tof = W(200)

\* C15: from the diagnostic loop with the transport at fault (the device
\* ID reads 0x00000000 or 0xFFFFFFFF), once the transport is healthy from
\* some time on (the ID reads as a DW3000's), initialization succeeds in the
\* end and the ranging loop is entered.
C15_InitRetried ==
    []((pc = "diag" /\ devid \in {DEV_ID_ZERO, DEV_ID_ONES})
          => (<>[](devid = DEV_ID_DW3000) => <>(pc \notin {"boot", "diag"})))

\* the cycle failed because a POLL or FINAL transmission was rejected or
\* did not complete
TxFault ==
    /\ pc = "ret" /\ ret # 0
    /\ ("POLL_TXDONE" \notin Events \/ "RESP_OK" \in Events)

\* the cycle failed because no valid RESPONSE arrived within the window
ResponseTimeout ==
    /\ pc = "ret" /\ ret # 0
    /\ "POLL_TXDONE" \in Events /\ "RESP_OK" \notin Events

\* what uwb_twr_cycle returns when uwb_wait_resp gave up
ResponseTimeoutResult == -1

\* C16: the result of a failed cycle tells its kind: a ResponseTimeout is
\* reported as such, and a TxFault is reported by another value than a
\* ResponseTimeout is.
C16_ErrorKinds ==
    /\ ResponseTimeout => ret = ResponseTimeoutResult
    /\ TxFault => ret # ResponseTimeoutResult

\* C17: the wait for the POLL's TX-done takes at most 1000 counted polls;
\* the RESPONSE wait is entered only with TX-done seen; when the POLL never
\* started or TX-done never shows, the cycle returns -1 straight from the
\* TX wait, with poll_tx_ts still 0, no RESPONSE awaited and no FINAL sent.
C17_PollTxFault ==
    [][ pc = "poll_tx" =>
          /\ tx_timeout <= POLL_TX_POLL_LIMIT
          /\ (pc' = pc /\ tx_timeout' # tx_timeout)
                => tx_timeout' = tx_timeout + 1
          /\ pc' = "resp" => "TXFRS" \in status
          /\ ("TXFRS" \notin status /\ tx_timeout = POLL_TX_POLL_LIMIT
                /\ pc' # pc) => pc' = "ret"
          /\ pc' = "ret" =>
                /\ "TXFRS" \notin status
                /\ tx_timeout = POLL_TX_POLL_LIMIT
                /\ ret' = -1
                /\ poll_tx_ts' = WZero /\ cap'.pollTx = NONE
                /\ ev' = ev /\ "POLL_TXDONE" \notin Events
                /\ txbuf' = txbuf /\ txbuf[10] = FUNC_CODE_POLL ]_vars

C17_Witness ==
    /\ pc = "ret" /\ ret = -1 /\ ev = <<>> /\ trx = "IDLE"
    /\ poll_tx_ts = WZero /\ txbuf[10] = FUNC_CODE_POLL

\* C18: a cycle whose FINAL was rejected by dwt_starttx, or whose FINAL the
\* transceiver has not reported as sent, ends with -1 and without a final
\* distance, and the supervisor counts it as a failure.
C18_FinalTxFault ==
    /\ (pc = "ret" /\ "RESP_OK" \in Events /\ "FINAL_TX" \notin Events)
          => (ret = -1 /\ distance = NONE)
    /\ (pc = "ret" /\ FinalOnAir) => (ret = -1 /\ distance = NONE)
    /\ (pc = "sleep" /\ FinalOnAir) => fail_run > 0

\* the sequence number a frame carries: byte 1 of a BLINK, byte 2 of a POLL
\* or a FINAL
SeqOf(f) == IF f[1] = 197 THEN f[2] ELSE f[3]

\* a step that encodes a frame
EncodeStep == pc \in {"poll", "final", "blink"} /\ pc' # pc

\* C19: every step that encodes a POLL, a FINAL or a BLINK adds exactly 1
\* modulo 256 to seq_num and stamps the frame with the value seq_num had
\* before; no other step, the watchdog's re-initialization included,
\* changes seq_num or the frame.
C19_SequenceCounter ==
    [][ /\ EncodeStep => /\ seq_num' = (seq_num + 1) % SEQ_MOD
                         /\ SeqOf(txbuf') = seq_num
        /\ ~EncodeStep => (seq_num' = seq_num /\ txbuf' = txbuf)
        /\ reinits' # reinits => seq_num' = seq_num ]_vars

C19_Witness ==
    /\ "FINAL_TX" \in Events /\ txbuf[10] = MSG_TYPE_FINAL
    /\ SeqOf(txbuf) = 0 /\ seq_num = 1

\* C20: seq_num is 0 until the first POLL after boot is encoded, and that
\* POLL carries message type 0x61 and sequence number 0.
C20_FirstPoll ==
    /\ (frame_count = 0 \/ (frame_count = 1 /\ pc \in {"cycle", "poll"}))
          => seq_num = 0
    /\ (frame_count = 1 /\ pc \in {"poll_tx", "resp"})
          => (txbuf[10] = FUNC_CODE_POLL /\ txbuf[3] = 0 /\ seq_num = 1)

C20_Witness ==
    /\ frame_count = 1 /\ pc = "resp" /\ "POLL_TXDONE" \in Events
    /\ txbuf[10] = FUNC_CODE_POLL /\ txbuf[3] = 0

(***************************************************************************)
(* C21: every POLL frame that is encoded is exactly 10 bytes long, without *)
(* payload: frame control 0x41 0x88, the sequence number at offset 2, PAN  *)
(* ID 0xDECA least significant byte first, two bytes of destination and    *)
(* two of source address, message type 0x61 at offset 9.                   *)
(***************************************************************************)
PollLayout(f, seq) ==
    /\ Len(f) = 10
    /\ f[1] = 65 /\ f[2] = 136
    /\ f[3] = seq
    /\ f[4] + (256 * f[5]) = 57034
    /\ \A k \in 6..9 : f[k] \in 0..255
    /\ f[10] = 97

C21_PollLayout ==
    [][ /\ (pc = "poll" /\ pc' # pc) => PollLayout(txbuf', seq_num)
        /\ (pc = "drv" /\ pc' = "drv_resp")
              => PollLayout(SubSeq(frame', 1, frame_len'), frame_seq_num)
      ]_vars

C21_Witness ==
    pc = "poll_tx" /\ Len(txbuf) = 10 /\ txbuf[3] = SEQ_MOD - 1 /\ seq_num = 0

(***************************************************************************)
(* C22: every FINAL frame uwb_send_final encodes is exactly 14 bytes long, *)
(* with message type 0x23 at offset 9 and calculated_dist_mm at offsets    *)
(* 10..13, least significant byte first: the four bytes read back in that  *)
(* order give the distance that was encoded, whatever 32-bit value it is.  *)
(***************************************************************************)
ReadU32LE(f, off) ==
    WAdd(ByteShl(f[off + 1], 0),
    WAdd(ByteShl(f[off + 2], 1),
    WAdd(ByteShl(f[off + 3], 2), ByteShl(f[off + 4], 3))))

Decode(f) == [messageType |-> f[10], sequenceNumber |-> f[3]]

Encoded(type, seq) == [messageType |-> type, sequenceNumber |-> seq]

C23_CodecRoundTrip ==
    [][ /\ (pc = "poll" /\ pc' # pc)
              => Decode(txbuf') = Encoded(FUNC_CODE_POLL, seq_num)
        /\ (pc = "final" /\ pc' # pc)
              => Decode(txbuf') = Encoded(MSG_TYPE_FINAL, seq_num)
        /\ (pc = "drv" /\ pc' = "drv_resp")
              => /\ frame_len' >= 10
                 /\ Decode(SubSeq(frame', 1, frame_len'))
                       = Encoded(FUNC_CODE_POLL, frame_seq_num)
        /\ (pc = "drv_resp" /\ pc' = "drv")
              => /\ frame_len' >= 10
                 /\ Decode(SubSeq(frame', 1, frame_len'))
                       = Encoded(MSG_TYPE_FINAL, frame_seq_num)
      ]_vars

C23_Witness ==
    /\ pc = "drv" /\ frame_len > 10
    /\ frame[10] = MSG_TYPE_FINAL /\ frame[3] = SEQ_MOD - 1
    /\ frame_seq_num = 0

(***************************************************************************)
(* C24: when a RESPONSE is accepted, poll_rx_ts_anchor is the 40-bit value *)
(* of bytes 10..14 of the frame and resp_tx_ts_anchor that of bytes        *)
(* 15..19, least significant byte first, whatever those bytes hold; the    *)
(* bytes before offset 10 and from offset 20 on have no part in either.    *)
(***************************************************************************)
Accepting == pc = "resp" /\ pc' = "final"

C24_ResponseTimestamps ==
    [][ Accepting
           => /\ StampBytes(poll_rx_ts_anchor') = rxframe.b10
              /\ StampBytes(resp_tx_ts_anchor') = rxframe.b15
              /\ \A g \in DecodeFrames :
                    (g.b10 = rxframe.b10 /\ g.b15 = rxframe.b15)
                       => /\ rx_buffer_stamp(g, 10) = poll_rx_ts_anchor'
                          /\ rx_buffer_stamp(g, 15) = resp_tx_ts_anchor'
      ]_vars

C24_Witness ==
    /\ pc = "final"
    /\ rxframe.b10 = <<1, 2, 3, 4, 5>> /\ rxframe.b15 = TS_WRAP
    /\ rxframe.len > 20 /\ rxframe.b0[3] = 255
    /\ poll_rx_ts_anchor = <<(5 * 4096) + (4 * 16), (3 * 65536) + 513>>
    /\ resp_tx_ts_anchor = WSub(TWO40, W(3))

(***************************************************************************)
(* C25: at the end of each iteration the supervisor sleeps                 *)
(* max(0, TAG_TWR_PERIOD_MS - elapsed) ms, elapsed being the time since    *)
(* the iteration started, a re-initialization included: the sleep is never *)
(* negative, there is none when the iteration took the period or longer,   *)
(* and the next iteration starts max(period, elapsed) after this one       *)
(* (k_msleep(n) taken to return n ms later).                               *)
(***************************************************************************)
Max(a, b) == IF a >= b THEN a ELSE b

C25_SleepRemainder ==
    [][ /\ (pc = "sleep" /\ pc' = "loop")
              => /\ elapsed' = uptime - t_start
                 /\ sleep_ms' = Max(0, TAG_TWR_PERIOD_MS - elapsed')
                 /\ sleep_ms' >= 0
                 /\ elapsed' >= TAG_TWR_PERIOD_MS => sleep_ms' = 0
                 /\ uptime' = t_start + Max(TAG_TWR_PERIOD_MS, elapsed')
        /\ (pc = "loop" /\ pc' = "cycle" /\ frame_count > 0)
              => t_start' = t_start + Max(TAG_TWR_PERIOD_MS, elapsed)
        /\ (pc = "ret" /\ reinits' # reinits)
              => uptime' >= uptime + REINIT_PAUSE_MS
      ]_vars

C25_Witness ==
    /\ pc = "cycle" /\ frame_count = 2 /\ reinits = 1
    /\ elapsed > TAG_TWR_PERIOD_MS /\ sleep_ms = 0
    /\ t_start = (StartUptimeMs + elapsed)

(***************************************************************************)
(* C26: the 20 Hz mode is the same supervisor with another period: its     *)
(* loop, too, adds 1 to fail_count on each failed cycle and sets it to 0   *)
(* on a successful one, calls uwb_driver_init on the 10th failure in a     *)
(* row, and ends each iteration sleeping what is left of the period.       *)
(***************************************************************************)
C26_FastModeSupervisor ==
    [][ /\ (pc = "ret" /\ pc' # pc /\ ret = 0)
              => (fail_count' = 0 /\ reinits' = reinits)
        /\ (pc = "ret" /\ pc' # pc /\ ret # 0)
              => IF fail_count + 1 = FAIL_THRESHOLD
                 THEN fail_count' = 0 /\ reinits' = reinits + 1
                 ELSE fail_count' = fail_count + 1 /\ reinits' = reinits
        /\ (pc = "ret" /\ pc' # pc /\ fail_run' = FAIL_THRESHOLD)
              => reinits' = reinits + 1
        /\ (pc = "ret" /\ pc' = "loop")
              => sleep_ms' = Max(0, FAST_SLEEP_MS - (uptime - t_start))
      ]_vars

(***************************************************************************)
(* C27: uwb_driver_init returns -1 for a transport fault exactly when the  *)
(* device ID read after the hardware reset is 0x00000000 or 0xFFFFFFFF     *)
(* (every other -1 comes from dwt_initialise or dwt_configure failing),    *)
(* and then it has returned before any call that initialises or configures *)
(* the transceiver.                                                        *)
(***************************************************************************)
InitSteps ==
    {"dwt_checkidlerc", "dwt_softreset", "dwt_initialise", "dwt_setleds",
     "dwt_configure", "dwt_configuretxrf", "dwt_setrxantennadelay",
     "dwt_settxantennadelay", "dwt_setrxaftertxdelay", "dwt_setrxtimeout",
     "dwt_setpreambledetecttimeout", "dwt_setlnapamode",
     "dwt_configureframefilter"}

OpsDone(o) == {o[k] : k \in 1..Len(o)}

C27_InitTransportFault ==
    [][ (pc = "boot" /\ pc' # pc)
           => /\ devid \in {DEV_ID_ZERO, DEV_ID_ONES}
                    => /\ ret' = -1
                       /\ OpsDone(ops') \cap InitSteps = {}
                       /\ ops'[Len(ops')] = "dwt_readdevid"
              /\ devid \notin {DEV_ID_ZERO, DEV_ID_ONES}
                    => /\ "dwt_initialise" \in OpsDone(ops')
                       /\ ret' = -1
                             => ops'[Len(ops')]
                                   \in {"dwt_initialise", "dwt_configure"}
                       /\ ops'[Len(ops')] = "dwt_configureframefilter"
                             => ret' = 0
      ]_vars

C27_Witness ==
    /\ pc = "diag" /\ ret = -1 /\ devid = DEV_ID_ONES
    /\ ops = <<"peripherals_init", "reset_DWIC", "dwt_readdevid">>

(***************************************************************************)
(* C28: the payload of every FINAL frame (the bytes behind the message     *)
(* type) carries exactly two or four timestamps of the exchange: those the *)
(* tag took for POLL TX and RESPONSE RX, and with four the anchor's two as *)
(* well, each in the 5 bytes of a DW3000 timestamp or the 8 bytes of a     *)
(* uint64_t.                                                               *)
(***************************************************************************)
Payload(f) == SubSeq(f, 11, Len(f))

C28_FinalPayload ==
    [][ /\ (pc = "final" /\ pc' # pc)
              => Payload(txbuf')
                    \in {StampBytes(poll_tx_ts) \o StampBytes(resp_rx_ts),
                         StampBytes(poll_tx_ts) \o StampBytes(resp_rx_ts)
                            \o StampBytes(poll_rx_ts_anchor)
                            \o StampBytes(resp_tx_ts_anchor)}
        /\ (pc = "drv_resp" /\ pc' = "drv")
              => Payload(SubSeq(frame', 1, frame_len'))
                    = LEBytes(t1_poll_tx', 8) \o LEBytes(t4_resp_rx', 8)
      ]_vars

(***************************************************************************)
(* C29: in every reachable state each stored timestamp (poll_tx_ts,        *)
(* resp_rx_ts, poll_rx_ts_anchor, resp_tx_ts_anchor) is a 40-bit value, in *)
(* [0, 2^40), whatever the 5 bytes of the timestamp registers and of the   *)
(* RESPONSE payload are.                                                   *)
(***************************************************************************)
In40(t) == t[1] \in 0..(LIMB - 1) /\ t[2] \in 0..(LIMB - 1)

C29_Timestamps40Bit ==
    /\ In40(poll_tx_ts)
    /\ In40(resp_rx_ts)
    /\ In40(poll_rx_ts_anchor)
    /\ In40(resp_tx_ts_anchor)

C29_Witness ==
    /\ pc = "final"
    /\ poll_tx_ts = WSub(TWO40, W(1))
    /\ resp_rx_ts = WSub(TWO40, W(1))
    /\ poll_rx_ts_anchor = WSub(TWO40, W(1))
    /\ resp_tx_ts_anchor = WSub(TWO40, W(3))

(***************************************************************************)
(* C30: the transceiver is forced idle before it is asked for anything     *)
(* new: each POLL and each FINAL transmission is started right after a     *)
(* dwt_forcetrxoff(), with no other TX or RX request between the two, so   *)
(* no transmission is started with the receiver armed or an earlier        *)
(* transmission under way; and when the wait for the RESPONSE runs out,    *)
(* the transceiver is forced idle before uwb_twr_cycle returns.            *)
(***************************************************************************)
StartsAfterIdle(o) ==
    \A k \in 1..Len(o) :
       o[k] = "dwt_starttx" => (k > 1 /\ o[k - 1] = "dwt_forcetrxoff")

C30_ForceIdleFirst ==
    /\ StartsAfterIdle(ops)
    /\ pc \in {"poll_tx", "final_tx"}
          => (Len(ops) >= 2 /\ ops[Len(ops)] = "dwt_starttx")
    /\ (pc = "ret" /\ "POLL_TXDONE" \in Events /\ "RESP_OK" \notin Events)
          => (trx = "IDLE" /\ ops[Len(ops)] = "dwt_forcetrxoff")

C30_Witness ==
    /\ pc = "final_tx" /\ frame_count > 1
    /\ ops = <<"dwt_forcetrxoff", "dwt_starttx",
               "dwt_forcetrxoff", "dwt_starttx">>

\* a turn of the RESPONSE wait that discards what the receiver reported (a
\* frame it read and did not accept, or a reception error) with turns left
DiscardStep ==
    /\ pc = "resp" /\ pc' = "resp"
    /\ i' = i + 1 /\ i' < Scaled.respPolls
    /\ \/ "RXFCG" \in status /\ "RXFCG" \notin status'
       \/ "RXERR" \in status /\ "RXERR" \notin status'

(***************************************************************************)
(* C31: discarding a frame does not end the RESPONSE wait: after a frame   *)
(* of another type, a frame too short or a reception error was discarded   *)
(* and turns of the wait are left, the receiver is armed, so that a valid  *)
(* RESPONSE the anchor sends then is received and accepted.                *)
(***************************************************************************)
C31_DiscardKeepsListening == [][DiscardStep => trx' = "RX"]_vars

\* (later - earlier) mod 2^40 and never the plain difference
Corrected(e, later, earlier) ==
    /\ e = Mod40(WSub(later, earlier))
    /\ ~WGe(later, earlier) => e # WSub(later, earlier)

\* twice the time of flight of the intervals ra and db, 0 when negative
Clamped(t, ra, db) ==
    /\ WGe(ra, db) => t = WSub(ra, db)
    /\ ~WGe(ra, db) => t = WZero

(***************************************************************************)
(* C32: in a completed cycle the time of flight uwb_wait_resp computed for *)
(* the distance in FINAL and the one calculate_distance computes after     *)
(* FINAL are the same: both take the round trip and the reply delay of the *)
(* same four timestamps as (later - earlier) mod 2^40, never as the plain  *)
(* difference, and both set a negative time of flight to 0.                *)
(***************************************************************************)
C32_SameTimeOfFlight ==
    [][pc = "calc" =>
          /\ Corrected(Ra, resp_rx_ts, poll_tx_ts)
          /\ Corrected(Db, resp_tx_ts_anchor, poll_rx_ts_anchor)
          /\ Clamped(tof, Ra, Db)
          /\ Ra' = Ra /\ Db' = Db /\ tof' = tof
          /\ UNCHANGED stamps]_vars

\* a cycle completed on a round trip and a reply delay that both cross the
\* wrap of the clock, with a time of flight above 0
C32_Witness ==
    /\ pc = "ret" /\ ret = 0 /\ "COMPLETE" \in Events
    /\ ~WGe(resp_rx_ts, poll_tx_ts)
    /\ ~WGe(resp_tx_ts_anchor, poll_rx_ts_anchor)
    /\ tof # WZero /\ tof = WSub(Ra, Db)

(***************************************************************************)
(* C33: TX-done is clear when uwb_send_final starts the FINAL              *)
(* transmission, so while FINAL is being transmitted the flag is not set,  *)
(* and the TX-done that uwb_send_final confirms was raised by the FINAL    *)
(* frame, never left set by the POLL of the cycle.                         *)
(***************************************************************************)
C33_TxDoneClearAtFinal ==
    /\ (pc = "final_tx" /\ FinalOnAir) => "TXFRS" \notin status
    /\ "FINAL_TXDONE" \in Events => ~FinalOnAir

(***************************************************************************)
(* C34: uwb_send_poll leaves no RX flag set, and a RESPONSE is accepted    *)
(* only on an RX-good flag that the receiver raised after that, for a      *)
(* frame it latched in this cycle: flags and frames left by an earlier     *)
(* cycle, however it ended, are never accepted.                            *)
(***************************************************************************)
C34_NoStaleResponse ==
    [][ /\ (pc = "poll" /\ pc' = "poll_tx") =>
               status' \cap (SYS_STATUS_ALL_RX_GOOD \cup SYS_STATUS_ALL_RX_ERR)
                   = {}
        /\ Accepting => ("RXFCG" \in status /\ cap.heard)
        /\ (pc \in {"poll_tx", "resp"} /\ "RXFCG" \in status') => cap'.heard
      ]_vars

\* uwb_send_poll has cleared the status register while the RX buffer still
\* holds the valid RESPONSE of the cycle before, which ended in a failure
C34_Witness ==
    /\ pc = "poll_tx" /\ frame_count > 1 /\ fail_count > 0
    /\ FrameRead(rxframe) /\ IsResponse(rxframe)
    /\ "RXFCG" \notin status /\ ~cap.heard

\* a turn of the RESPONSE wait that finds the RX-good flag set
GoodFrameTurn ==
    /\ pc = "resp" /\ i < Scaled.respPolls /\ "RXFCG" \in status
    /\ (pc' = "final" \/ i' = i + 1)

(***************************************************************************)
(* C35: a turn of the RESPONSE wait that finds RX-good set either accepts  *)
(* the frame as the RESPONSE or clears the flag before the next turn,      *)
(* whatever length the transceiver reports for the frame, 0 and 128 or     *)
(* more included; no rejected frame keeps the flag set.                    *)
(***************************************************************************)
C35_RejectedFrameCleared ==
    [][GoodFrameTurn => (pc' = "final" \/ "RXFCG" \notin status')]_vars

(***************************************************************************)
(* C36: whether the RESPONSE wait accepts a received frame depends on its  *)
(* length and on its byte 9 and on nothing else: frames that agree on the  *)
(* two are accepted alike, whatever their PAN ID, destination, source and  *)
(* sequence number, so that a RESPONSE sent to another tag, or answering   *)
(* an earlier POLL, is accepted and its timestamps are taken over.         *)
(***************************************************************************)
C36_AcceptedByLengthAndType ==
    [][GoodFrameTurn =>
          /\ (pc' = "final") <=>
                /\ rxframe.len >= RESP_MIN_LEN /\ rxframe.len < RX_BUFFER_LEN
                /\ rxframe.type = FUNC_CODE_RESP
          /\ \A g \in FilterFrames :
                (g.len = rxframe.len /\ g.type = rxframe.type)
                   => ((FrameRead(g) /\ IsResponse(g)) <=> (pc' = "final"))
          /\ (pc' = "final") =>
                /\ StampBytes(poll_rx_ts_anchor') = rxframe.b10
                /\ StampBytes(resp_tx_ts_anchor') = rxframe.b15]_vars

\* a RESPONSE of another network, sent to tag 3 under sequence number 77,
\* has been accepted
C36_Witness ==
    /\ pc = "final" /\ "RESP_OK" \in Events
    /\ rxframe.b0 = <<65, 136, 77, 52, 18, 3, 0, 9, 0>>
    /\ poll_rx_ts_anchor = W(1000) /\ resp_tx_ts_anchor = W(1100)

\* the frame in the TX buffer is a FINAL
FinalEncoded == Len(txbuf) = 14 /\ txbuf[10] = MSG_TYPE_FINAL

\* where seq_num stands after a cycle whose POLL carried cap.pollSeq
AfterCycle ==
    seq_num = (cap.pollSeq + (IF FinalEncoded THEN 2 ELSE 1)) % SEQ_MOD

(***************************************************************************)
(* C37: the FINAL of a cycle carries the sequence number of the cycle's    *)
(* POLL plus 1 modulo 256, and a cycle that fails before FINAL is encoded  *)
(* uses up one sequence number: when the cycle returns, and still when the *)
(* next cycle begins, seq_num is the POLL's number plus 2 if FINAL was     *)
(* encoded and plus 1 if the cycle failed at POLL or at the RESPONSE wait, *)
(* and that is the number the next POLL carries.                           *)
(***************************************************************************)
C37_SequencePerCycle ==
    [][ /\ (pc = "poll" /\ pc' = "poll_tx") =>
               (txbuf'[3] = seq_num /\ cap'.pollSeq = seq_num)
        /\ (pc = "final" /\ pc' # "final") =>
               (FinalEncoded' /\ txbuf'[3] = (cap.pollSeq + 1) % SEQ_MOD)
        /\ (pc = "ret" /\ pc' # "ret") =>
               (AfterCycle /\ (FinalEncoded <=> "RESP_OK" \in Events))
        /\ (pc = "cycle" /\ pc' = "poll" /\ cap.pollSeq # -1) => AfterCycle
      ]_vars

\* a cycle has returned whose POLL carried 255 and whose FINAL carried 0
C37_Witness ==
    /\ pc = "ret" /\ cap.pollSeq = SEQ_MOD - 1
    /\ FinalEncoded /\ txbuf[3] = 0 /\ seq_num = 1

\* the cycle ran through POLL, RESPONSE and FINAL, and its time of flight
\* was below 0 before it was set to 0
ClampedCycle ==
    /\ pc = "ret" /\ "COMPLETE" \in Events
    /\ ~WGe(Ra, Db) /\ tof = WZero /\ distance = WZero

(***************************************************************************)
(* C38: a cycle in which POLL, RESPONSE and FINAL succeeded returns 0 to   *)
(* main() also when its time of flight was set to 0, and main() then sets  *)
(* fail_count to 0 and does not re-initialize: cycles of distance 0 count  *)
(* as successes, however many follow one another.                          *)
(***************************************************************************)
C38_ClampedIsSuccess ==
    [][ (pc = "ret" /\ pc' # "ret" /\ "COMPLETE" \in Events) =>
            /\ ret = 0
            /\ fail_count' = 0
            /\ reinits' = reinits
      ]_vars

\* a cycle of distance 0 has returned after nine failed cycles in a row
C38_Witness == ClampedCycle /\ ret = 0 /\ fail_count = FAIL_THRESHOLD - 1

\* the calls of a uwb_driver_init() that returned -1
FailedInit(o) ==
    /\ Len(o) > 0 /\ o[1] = "peripherals_init"
    /\ o[Len(o)] # "dwt_configureframefilter"

(***************************************************************************)
(* C39: when the re-initialization at the failure threshold fails itself,  *)
(* main() does not halt and does not enter the diagnostic loop of the      *)
(* boot: fail_count is set to 0 all the same, the iteration goes on to its *)
(* sleep and to further cycles, and uwb_driver_init is called again only   *)
(* on the tenth failure counted from there.                                *)
(***************************************************************************)
C39_FailedReinitGoesOn ==
    [][ /\ reinits' # reinits =>
              /\ pc = "ret" /\ pc' = "sleep"
              /\ fail_count = FAIL_THRESHOLD - 1 /\ fail_count' = 0
              /\ fail_run' > 0 /\ fail_run' % FAIL_THRESHOLD = 0
        /\ (pc = "ret" /\ pc' # "ret" /\ ret # 0
               /\ fail_count < FAIL_THRESHOLD - 1) =>
              (reinits' = reinits /\ fail_count' = fail_count + 1)
        /\ pc \notin {"boot", "diag"} => pc' # "diag"
        /\ (pc = "sleep" /\ FailedInit(ops) /\ pc' # pc) =>
              (pc' = "loop" /\ fail_count' = 0)
        /\ (pc = "loop" /\ FailedInit(ops) /\ pc' # pc) => pc' = "cycle"
      ]_vars

\* cycle 11 begins after the re-initialization that followed cycle 10 found
\* no chip on the bus
C39_Witness ==
    /\ pc = "cycle" /\ frame_count = FAIL_THRESHOLD + 1
    /\ reinits = 1 /\ fail_count = 0
    /\ ops = <<"peripherals_init", "reset_DWIC", "dwt_readdevid">>

\* sizeof(uwb_data_frame_t): 9 header bytes, msg_type, payload[32]
FrameSize == 9 + 1 + PAYLOAD_MAX

\* the bytes of the last call's payload that build_ieee802154_frame takes
Given ==
    IF call.has_payload /\ call.payload_len > 0
    THEN IF call.payload_len > PAYLOAD_MAX THEN PAYLOAD_MAX
         ELSE call.payload_len
    ELSE 0

(***************************************************************************)
(* C40: build_ieee802154_frame returns 10 when no payload is given (null   *)
(* pointer or length 0) and 10 + min(payload_len, 32) otherwise; it copies *)
(* the first min(payload_len, 32) payload bytes and not one more, so the   *)
(* length returned lies in 10..42 and within the frame structure; called   *)
(* with a null frame it returns -1, writes nothing and leaves              *)
(* frame_seq_num as it is.                                                 *)
(***************************************************************************)
C40_FrameLength ==
    [][ /\ ~call'.frame =>
              (frame_len' = -1 /\ frame_seq_num' = frame_seq_num
                 /\ frame' = frame)
        /\ call'.frame =>
              /\ frame_len' = 10 + Given'
              /\ frame_len' \in 10..FrameSize
              /\ Len(frame') = FrameSize
              /\ SubSeq(frame', 11, frame_len')
                    = SubSeq(call'.payload, 1, Given')
              /\ \A k \in (frame_len' + 1)..Len(frame') : frame'[k] = 0
              /\ frame'[3] = frame_seq_num
              /\ frame_seq_num' = (frame_seq_num + 1) % SEQ_MOD
      ]_vars

\* the first call with a non-null frame, with a payload of 255 bytes, has
\* returned 42
C40_Witness ==
    /\ call.frame /\ call.has_payload /\ call.payload_len = UINT8_MAX
    /\ frame_len = FrameSize /\ frame[FrameSize] = PayloadOf(PAYLOAD_MAX)[32]
    /\ frame_seq_num = 1

=============================================================================
